---- MODULE Spec2Model ----
(***************************************************************************)
(* Model of the texture registry and the material registry of              *)
(* SceneManager (src/SceneManager.cpp), together with the part of the      *)
(* OpenGL state its calls act on (generated texture names, the active      *)
(* texture unit and the GL_TEXTURE_2D binding of every unit).              *)
(*                                                                         *)
(* Spec     : the texture registry - CreateGLTexture, BindGLTextures and   *)
(*            the destructor (which runs DestroyGLTextures).               *)
(* SpecMat  : the material registry - push_back of a material and          *)
(*            FindMaterial.                                                *)
(***************************************************************************)
EXTENDS Integers, Sequences, FiniteSets, TLC

\* ------------------------------------------------------------------ bounds
\* tags are chosen freely (fresh or already registered) while fewer than
\* DupWindow textures are registered; afterwards every call uses a fresh tag
DupWindow == 2
\* an image with an unsupported channel count is only drawn while fewer than
\* LeakWindow texture names have been generated
LeakWindow == 2
\* longest material list
MaxMaterials == 3

\* ------------------------------------------------------- program constants
\* size of m_textureIDs, the literal 16 of the constructor's loop
Capacity == 16
\* the value FindTextureID / FindTextureSlot start from
NotFound == -1
\* placeholder tag the constructor writes into every slot
PlaceholderTag == "/0"
\* texture units the model tracks: GL_TEXTURE0 .. GL_TEXTURE0 + Capacity
TextureUnits == Capacity + 1

\* the tags of LoadSceneTextures, followed by further distinct tags so that
\* the table can be filled past its capacity with pairwise distinct tags
AllTags ==
  << "ground", "snow", "snowman", "nose", "tophat", "giftbox", "tree",
     "moon", "turret", "purplelight", "ornaments",
     "t12", "t13", "t14", "t15", "t16", "t17" >>

TagSet == {AllTags[i] : i \in 1..Len(AllTags)}
\* tags a lookup is asked for: every tag above and the placeholder
QueryTags == TagSet \cup {PlaceholderTag}

\* what stbi_load can give back: no image, or an image of 1..4 channels
Images ==
  {[decoded |-> FALSE, colorChannels |-> 0]} \cup
  {[decoded |-> TRUE, colorChannels |-> c] : c \in 1..4}

VARIABLES
  m_textureIDs,      \* [0..Capacity-1 -> [tag, ID]]
  m_loadedTextures,  \* number of registered textures
  oob,               \* the memory right behind m_textureIDs, read as an entry
  m_pShaderManager,  \* "sink" or "NULL"
  m_basicMeshes,     \* "meshes" or "NULL"
  phase,             \* "alive", "destroyed" (destructor ran) or "crashed"
  bReturn,           \* what the latest CreateGLTexture call returned
  glNames,           \* texture names glGenTextures has handed out
  glDeleted,         \* texture names given back with glDeleteTextures
  glActiveUnit,      \* unit selected by glActiveTexture
  glBound,           \* [unit -> name bound to GL_TEXTURE_2D, 0 for none]
  registered,        \* history: <<[tag, ID]>> of the calls that returned true
  m_objectMaterials, \* sequence of OBJECT_MATERIAL
  fmTag,             \* the tag of the latest FindMaterial call, "" for none
  fmReturn,          \* what the latest FindMaterial call returned
  fmMaterial,        \* the caller's OBJECT_MATERIAL after that call
  uniform,           \* [uniform name -> value] of the shader program
  pushes,            \* kinds of uniform pushes since the latest draw call
  locals,            \* scaleXYZ, the rotations and positionXYZ of RenderScene
  build,             \* "final" (SceneManager.cpp) or "milestone" (part_000)
  pc,                \* [at: position in PrepareScene / RenderScene, ip: next call]
  frame,             \* number of the RenderScene call in progress
  frameLog,          \* what each draw call of this frame saw
  prevFrame,         \* frameLog of the frame before this one
  attempts,          \* tags LoadSceneTextures has called CreateGLTexture with
  bindCalls,         \* BindGLTextures calls of LoadSceneTextures
  bricks,            \* brick-breaker: brick .. brick26 of main
  world,             \* brick-breaker: vector<Circle> world
  shouldClose,       \* brick-breaker: the window's should-close flag
  gpc,               \* brick-breaker: [at: position in main, i: circle index]
  drawn,             \* brick-breaker: draw calls of the frame in progress
  startHealth,       \* brick-breaker: health of the bricks when the frame began
  escSeen,           \* brick-breaker: processInput has seen ESC pressed
  closeRequested,    \* brick-breaker: the user asked to close the window
  gframe             \* brick-breaker: frames counted where a run is cut short

texVars == << m_textureIDs, m_loadedTextures, oob, m_pShaderManager,
              m_basicMeshes, phase, bReturn, glNames, glDeleted,
              glActiveUnit, glBound, registered >>
matVars == << m_objectMaterials, fmTag, fmReturn, fmMaterial >>
pipeVars == << uniform, pushes, locals >>
sceneVars == << build, pc, frame, frameLog, prevFrame, attempts,
               bindCalls >>
gameVars == << bricks, world, shouldClose, gpc, drawn, startHealth, escSeen,
              closeRequested, gframe >>
vars == << texVars, matVars, pipeVars, sceneVars, gameVars >>

\* ------------------------------------------------------------ GL helpers
\* glGenTextures(1, &id): a name that is not in use; the lowest one
glGenTextures(names) ==
  CHOOSE n \in 1..(Cardinality(names) + 1) :
    n \notin names /\ \A m \in 1..(n - 1) : m \in names

\* ------------------------------------------------------ the texture table
\* element i of m_textureIDs as the code addresses it; index Capacity is the
\* memory behind the array
Slot(i) == IF i < Capacity THEN m_textureIDs[i] ELSE oob

\* an OBJECT_MATERIAL nothing was assigned to; colours are vec3 in
\* thousandths, shininess in hundredths
EmptyMaterial == [tag |-> "", diffuseColor |-> << 0, 0, 0 >>,
                  specularColor |-> << 0, 0, 0 >>, shininess |-> 0]

\* --------------------------------------------------- the uniform sink
\* fixed point: lengths, scales and UV factors in thousandths, colour and
\* light components in ten-thousandths
Q == 1000

ZeroMatrix ==
  << << 0, 0, 0, 0 >>, << 0, 0, 0, 0 >>, << 0, 0, 0, 0 >>, << 0, 0, 0, 0 >> >>

\* the uniform writes of SetupSceneLights, in program order
LightWrites ==
  << << "bUseLighting", TRUE >>,
     << "directionalLight.direction", << -130000, 170000, -70000 >> >>,
     << "directionalLight.ambient", << 10000, 10000, 10000 >> >>,
     << "directionalLight.ambientColor", << 3730, 5431, 9100, 10000 >> >>,
     << "directionalLight.diffuse", << 6000, 6000, 6000 >> >>,
     << "directionalLight.specular", << 2000, 2000, 2000 >> >>,
     << "directionalLight.bActive", TRUE >>,
     << "pointLights[0].position", << 70000, 50000, 0 >> >>,
     << "pointLights[0].ambient", << 500, 500, 500 >> >>,
     << "pointLights[0].diffuse", << 3000, 3000, 3000 >> >>,
     << "pointLights[0].specular", << 1000, 1000, 1000 >> >>,
     << "pointLights[0].bActive", TRUE >>,
     << "pointLights[1].position", << 60000, 45000, -80000 >> >>,
     << "pointLights[1].ambient", << 500, 500, 500 >> >>,
     << "pointLights[1].diffuse", << 600, 600, 600 >> >>,
     << "pointLights[1].specular", << 1000, 1000, 1000 >> >>,
     << "pointLights[1].bActive", TRUE >>,
     << "pointLights[2].position", << -10000, 45000, 7500 >> >>,
     << "pointLights[2].ambient", << 500, 500, 500 >> >>,
     << "pointLights[2].ambientColor", << 7134, 3480, 8700 >> >>,
     << "pointLights[2].diffuse", << 600, 600, 600 >> >>,
     << "pointLights[2].specular", << 1000, 1000, 1000 >> >>,
     << "pointLights[2].bActive", TRUE >> >>

LightUniforms == {LightWrites[i][1] : i \in 1..Len(LightWrites)}

\* the boolean ones among them
LightFlags ==
  {"bUseLighting", "directionalLight.bActive", "pointLights[0].bActive",
   "pointLights[1].bActive", "pointLights[2].bActive"}

\* what a shader uniform holds before anything writes it: zero, and for
\* UVscale whatever the shader source initialises it with (uvscale)
InitUniform(uvscale) ==
  [n \in {"model", "objectColor", "objectTexture", "bUseTexture", "UVscale",
          "material.diffuseColor", "material.specularColor",
          "material.shininess"} \cup LightUniforms |->
     CASE n = "model" -> ZeroMatrix
       [] n = "objectColor" -> << 0, 0, 0, 0 >>
       [] n = "objectTexture" -> 0
       [] n = "bUseTexture" -> FALSE
       [] n = "UVscale" -> uvscale
       [] n = "material.shininess" -> 0
       [] n \in {"material.diffuseColor", "material.specularColor"} ->
            << 0, 0, 0 >>
       [] n \in LightFlags -> FALSE
       [] OTHER ->
            LET i == CHOOSE j \in 1..Len(LightWrites) : LightWrites[j][1] = n
            IN  [k \in 1..Len(LightWrites[i][2]) |-> 0]]

\* the values UVscale can start with: the GLSL default and the unit scale
InitialUVscales == { << 0, 0 >>, << Q, Q >> }

\* the locals of RenderScene before the first assignment
NoLocals == [scaleXYZ |-> << 0, 0, 0 >>, XrotationDegrees |-> 0,
             YrotationDegrees |-> 0, ZrotationDegrees |-> 0,
             positionXYZ |-> << 0, 0, 0 >>]

\* ------------------------------------------------------- brick-breaker
\* lengths and colours of the brick-breaker are in hundredths
REFLECTIVE == "REFLECTIVE"
DESTRUCTABLE == "DESTRUCTABLE"
ON == "ON"
OFF == "OFF"

\* Brick::Brick
NewBrick(bt, xx, yy, ww, rr, gg, bb) ==
  [brick_type |-> bt, x |-> xx, y |-> yy, width |-> ww, red |-> rr,
   green |-> gg, blue |-> bb, onoff |-> ON, health |-> 10]

\* brick, brick2 .. brick26 of main
InitialBricks ==
  << NewBrick(DESTRUCTABLE, 50, -33, 20, 100, 100, 0),
     NewBrick(DESTRUCTABLE, -50, 20, 20, 0, 100, 0),
     NewBrick(DESTRUCTABLE, -50, -33, 20, 0, 100, 100),
     NewBrick(REFLECTIVE, 70, 60, 20, 100, 50, 50),
     NewBrick(DESTRUCTABLE, -90, 80, 20, 100, 100, 100),
     NewBrick(DESTRUCTABLE, 90, 80, 20, 0, 100, 100),
     NewBrick(DESTRUCTABLE, -70, 80, 20, 0, 100, 0),
     NewBrick(DESTRUCTABLE, 70, 80, 20, 100, 100, 100),
     NewBrick(DESTRUCTABLE, 50, 20, 20, 100, 0, 0),
     NewBrick(REFLECTIVE, -70, 60, 20, 100, 50, 50),
     NewBrick(REFLECTIVE, -50, 40, 20, 100, 50, 50),
     NewBrick(REFLECTIVE, 50, 40, 20, 100, 50, 50),
     NewBrick(REFLECTIVE, -30, 20, 20, 100, 50, 50),
     NewBrick(REFLECTIVE, 30, 20, 20, 100, 50, 50),
     NewBrick(DESTRUCTABLE, 0, 20, 20, 0, 100, 100),
     NewBrick(DESTRUCTABLE, -90, 0, 20, 100, 100, 100),
     NewBrick(DESTRUCTABLE, -70, 0, 20, 0, 100, 0),
     NewBrick(DESTRUCTABLE, -50, 0, 20, 0, 100, 100),
     NewBrick(DESTRUCTABLE, -30, 0, 20, 100, 100, 100),
     NewBrick(DESTRUCTABLE, -10, 0, 20, 0, 100, 0),
     NewBrick(DESTRUCTABLE, 10, 0, 20, 0, 100, 100),
     NewBrick(DESTRUCTABLE, 30, 0, 20, 100, 100, 100),
     NewBrick(DESTRUCTABLE, 50, 0, 20, 0, 100, 0),
     NewBrick(DESTRUCTABLE, 70, 0, 20, 0, 100, 100),
     NewBrick(DESTRUCTABLE, 90, 0, 20, 100, 100, 100),
     NewBrick(REFLECTIVE, 0, -80, 25, 100, 50, 50) >>

\* SceneManager::SceneManager
InitScene ==
  /\ m_textureIDs = [i \in 0..(Capacity - 1) |->
                       [tag |-> PlaceholderTag, ID |-> -1]]
  /\ m_loadedTextures = 0
  /\ oob = [tag |-> PlaceholderTag, ID |-> -1]
  /\ m_pShaderManager = "sink"
  /\ m_basicMeshes = "meshes"
  /\ phase = "alive"
  /\ bReturn = FALSE
  /\ glNames = {}
  /\ glDeleted = {}
  /\ glActiveUnit = 0
  /\ glBound = [u \in 0..(TextureUnits - 1) |-> 0]
  /\ registered = << >>
  /\ m_objectMaterials = << >>
  /\ fmTag = ""
  /\ fmReturn = FALSE
  /\ fmMaterial = EmptyMaterial
  /\ uniform = InitUniform(<< Q, Q >>)
  /\ pushes = << >>
  /\ locals = NoLocals
  /\ build = "final"
  /\ pc = [at |-> "constructed", ip |-> 0]
  /\ frame = 0
  /\ frameLog = << >>
  /\ prevFrame = << >>
  /\ attempts = << >>
  /\ bindCalls = 0

Init ==
  /\ InitScene
  /\ bricks = InitialBricks
  /\ world = << >>
  /\ shouldClose = FALSE
  /\ gpc = [at |-> "while", i |-> 0]
  /\ drawn = << >>
  /\ startHealth = [b \in 1..Len(InitialBricks) |-> 10]
  /\ escSeen = FALSE
  /\ closeRequested = FALSE
  /\ gframe = 0

\* what the slot behind the array reads back after the out-of-bounds store:
\* the entry that was stored, or whatever the owner of that memory holds
OobReadBack(tag, id) ==
  { [tag |-> tag, ID |-> id],
    [tag |-> PlaceholderTag, ID |-> -1],
    [tag |-> AllTags[1], ID |-> 0] }

\* StoreEntry without the assignment of the tag
StoreEntry_NoTag(ids, n, tag, textureID) ==
  [ids EXCEPT ![n] = [tag |-> ids[n].tag, ID |-> textureID]]

\* the registration store of CreateGLTexture: ID and tag into slot n
StoreEntry(ids, n, tag, textureID) ==
  [ids EXCEPT ![n] = [tag |-> tag, ID |-> textureID]]

\* SceneManager::CreateGLTexture(filename, tag); image is what stbi_load
\* returns for filename
CreateGLTexture(tag, image) ==
  /\ phase = "alive"
  /\ m_loadedTextures <= Capacity
  /\ UNCHANGED << m_pShaderManager, m_basicMeshes, glDeleted, glActiveUnit,
                  matVars >>
  /\ IF ~image.decoded
     THEN \* "Could not load image"
          /\ bReturn' = FALSE
          /\ UNCHANGED << m_textureIDs, m_loadedTextures, oob, phase,
                          glNames, glBound, registered >>
     ELSE LET textureID == glGenTextures(glNames) IN
          /\ glNames' = glNames \cup {textureID}
          /\ IF image.colorChannels \notin {3, 4}
             THEN \* "Not implemented to handle image with n channels"
                  /\ glBound' = [glBound EXCEPT ![glActiveUnit] = textureID]
                  /\ bReturn' = FALSE
                  /\ UNCHANGED << m_textureIDs, m_loadedTextures, oob, phase,
                                  registered >>
             ELSE \* glBindTexture(GL_TEXTURE_2D, 0), then the registration
                  /\ glBound' = [glBound EXCEPT ![glActiveUnit] = 0]
                  /\ IF m_loadedTextures < Capacity
                     THEN /\ m_textureIDs' =
                               StoreEntry(m_textureIDs, m_loadedTextures,
                                          tag, textureID)
                          /\ m_loadedTextures' = m_loadedTextures + 1
                          /\ bReturn' = TRUE
                          /\ registered' =
                               Append(registered,
                                      [tag |-> tag, ID |-> textureID])
                          /\ UNCHANGED << oob, phase >>
                     ELSE \* store to m_textureIDs[16]: behind the array
                          \/ /\ phase' = "crashed"
                             /\ UNCHANGED << m_textureIDs, m_loadedTextures,
                                             oob, bReturn, registered >>
                          \/ /\ oob' \in OobReadBack(tag, textureID)
                             /\ m_loadedTextures' = m_loadedTextures + 1
                             /\ bReturn' = TRUE
                             /\ registered' =
                                  Append(registered,
                                         [tag |-> tag, ID |-> textureID])
                             /\ UNCHANGED << m_textureIDs, phase >>

\* BindLoop selecting unit i + 1 for slot i
RECURSIVE BindLoop_NextUnit(_, _)
BindLoop_NextUnit(i, gl) ==
  IF i < m_loadedTextures
  THEN BindLoop_NextUnit(i + 1,
         << i + 1, [gl[2] EXCEPT ![i + 1] = Slot(i).ID] >>)
  ELSE gl

\* the loop of BindGLTextures from index i on, acting on the pair
\* << active unit, bindings >>
RECURSIVE BindLoop(_, _)
BindLoop(i, gl) ==
  IF i < m_loadedTextures
  THEN BindLoop(i + 1, << i, [gl[2] EXCEPT ![i] = Slot(i).ID] >>)
  ELSE gl

\* SceneManager::BindGLTextures
BindGLTextures ==
  /\ phase = "alive"
  /\ LET gl == BindLoop(0, << glActiveUnit, glBound >>) IN
       /\ glActiveUnit' = gl[1]
       /\ glBound' = gl[2]
  /\ UNCHANGED << m_textureIDs, m_loadedTextures, oob, m_pShaderManager,
                  m_basicMeshes, phase, bReturn, glNames, glDeleted,
                  registered, matVars >>

\* the loop of DestroyGLTextures from index i on, acting on the triple
\* << m_textureIDs, oob, glNames >>
RECURSIVE DestroyLoop(_, _)
DestroyLoop(i, st) ==
  IF i < m_loadedTextures
  THEN LET id == glGenTextures(st[3]) IN
       DestroyLoop(i + 1,
         << IF i < Capacity
            THEN [st[1] EXCEPT ![i] = [tag |-> st[1][i].tag, ID |-> id]]
            ELSE st[1],
            IF i < Capacity THEN st[2] ELSE [tag |-> st[2].tag, ID |-> id],
            st[3] \cup {id} >>)
  ELSE st

\* SceneManager::DestroyGLTextures
DestroyGLTextures ==
  LET st == DestroyLoop(0, << m_textureIDs, oob, glNames >>) IN
    /\ m_textureIDs' = st[1]
    /\ oob' = st[2]
    /\ glNames' = st[3]
    /\ UNCHANGED << m_loadedTextures, glDeleted, glActiveUnit, glBound >>

\* SceneManager::~SceneManager
Destructor ==
  /\ phase = "alive"
  /\ m_pShaderManager' = "NULL"
  /\ m_basicMeshes' = "NULL"
  /\ DestroyGLTextures
  /\ phase' = "destroyed"
  /\ UNCHANGED << bReturn, registered, matVars >>

\* FindTextureID: the while loop from index on
RECURSIVE FindTextureIDFrom(_, _)
FindTextureIDFrom(tag, index) ==
  IF index < m_loadedTextures
  THEN IF Slot(index).tag = tag
       THEN Slot(index).ID
       ELSE FindTextureIDFrom(tag, index + 1)
  ELSE NotFound

\* SceneManager::FindTextureID
FindTextureID(tag) == FindTextureIDFrom(tag, 0)

\* the slot scan counting slots from 1
RECURSIVE FindTextureSlotFrom_OneBased(_, _)
FindTextureSlotFrom_OneBased(tag, index) ==
  IF index < m_loadedTextures
  THEN IF Slot(index).tag = tag
       THEN index + 1
       ELSE FindTextureSlotFrom_OneBased(tag, index + 1)
  ELSE NotFound

\* the slot scan running over the whole array instead of the populated part
RECURSIVE FindTextureSlotFrom_AllSlots(_, _)
FindTextureSlotFrom_AllSlots(tag, index) ==
  IF index < Capacity
  THEN IF Slot(index).tag = tag
       THEN index
       ELSE FindTextureSlotFrom_AllSlots(tag, index + 1)
  ELSE NotFound

\* FindTextureSlot: the while loop from index on
RECURSIVE FindTextureSlotFrom(_, _)
FindTextureSlotFrom(tag, index) ==
  IF index < m_loadedTextures
  THEN IF Slot(index).tag = tag
       THEN index
       ELSE FindTextureSlotFrom(tag, index + 1)
  ELSE NotFound

\* SceneManager::FindTextureSlot
FindTextureSlot(tag) == FindTextureSlotFrom(tag, 0)

\* ------------------------------------------------------------- inputs
PopulatedTags == {Slot(i).tag : i \in 0..(m_loadedTextures - 1)}

\* the first tag of AllTags that is not registered
FreshTag ==
  AllTags[CHOOSE k \in 1..Len(AllTags) :
            /\ AllTags[k] \notin PopulatedTags
            /\ \A j \in 1..(k - 1) : AllTags[j] \in PopulatedTags]

TagChoices ==
  IF m_loadedTextures < DupWindow
  THEN PopulatedTags \cup {FreshTag}
  ELSE {FreshTag}

ImageChoices ==
  IF Cardinality(glNames) < LeakWindow
  THEN Images
  ELSE {im \in Images : ~im.decoded \/ im.colorChannels \in {3, 4}}

CallCreateGLTexture ==
  /\ m_loadedTextures <= Capacity
  /\ \E tag \in TagChoices, image \in ImageChoices :
       CreateGLTexture(tag, image)
  /\ UNCHANGED << pipeVars, sceneVars >>
  /\ UNCHANGED gameVars

CallBindGLTextures ==
  /\ BindGLTextures /\ UNCHANGED << pipeVars, sceneVars >>
  /\ UNCHANGED gameVars

CallDestructor ==
  /\ Destructor /\ UNCHANGED << pipeVars, sceneVars >>
  /\ UNCHANGED gameVars

Next ==
  \/ CallCreateGLTexture
  \/ CallBindGLTextures
  \/ CallDestructor

Spec == Init /\ [][Next]_vars

\* ------------------------------------------------- the material registry
\* values of bronzeMaterial and pearlMaterial of DefineObjectMaterials
MaterialValues ==
  { [diffuseColor |-> << 714, 428, 181 >>,
     specularColor |-> << 394, 272, 167 >>, shininess |-> 2000],
    [diffuseColor |-> << 1000, 829, 829 >>,
     specularColor |-> << 297, 297, 297 >>, shininess |-> 2500] }

\* tags materials are defined under, and one more tag that never is
MaterialTags == {"sand", "pearl"}
MaterialQueryTags == MaterialTags \cup {"silver"}

Materials ==
  { [tag |-> t, diffuseColor |-> v.diffuseColor,
     specularColor |-> v.specularColor, shininess |-> v.shininess] :
      t \in MaterialTags, v \in MaterialValues }

\* what the caller's OBJECT_MATERIAL holds before FindMaterial is called
CallerMaterials ==
  { EmptyMaterial,
    [tag |-> "", diffuseColor |-> << 10, 10, 10 >>,
     specularColor |-> << 500, 500, 500 >>, shininess |-> 2500] }

\* m_objectMaterials.push_back(material), as DefineObjectMaterials does
DefineObjectMaterial(material) ==
  /\ Len(m_objectMaterials) < MaxMaterials
  /\ m_objectMaterials' = Append(m_objectMaterials, material)
  /\ UNCHANGED << fmTag, fmReturn, fmMaterial, texVars, pipeVars, sceneVars >>
  /\ UNCHANGED gameVars

\* the material scan going on after a match, so that the last match wins
RECURSIVE FindMaterialFrom_LastMatch(_, _, _)
FindMaterialFrom_LastMatch(tag, material, index) ==
  IF index < Len(m_objectMaterials)
  THEN IF m_objectMaterials[index + 1].tag = tag
       THEN << TRUE,
               FindMaterialFrom_LastMatch(tag,
                 [material EXCEPT
                    !.diffuseColor = m_objectMaterials[index + 1].diffuseColor,
                    !.specularColor =
                       m_objectMaterials[index + 1].specularColor,
                    !.shininess = m_objectMaterials[index + 1].shininess],
                 index + 1)[2] >>
       ELSE FindMaterialFrom_LastMatch(tag, material, index + 1)
  ELSE << FALSE, material >>

\* FindMaterial: the while loop from index on; gives << bFound, material >>
RECURSIVE FindMaterialFrom(_, _, _)
FindMaterialFrom(tag, material, index) ==
  IF index < Len(m_objectMaterials)
  THEN IF m_objectMaterials[index + 1].tag = tag
       THEN << TRUE,
               [material EXCEPT
                  !.diffuseColor = m_objectMaterials[index + 1].diffuseColor,
                  !.specularColor = m_objectMaterials[index + 1].specularColor,
                  !.shininess = m_objectMaterials[index + 1].shininess] >>
       ELSE FindMaterialFrom(tag, material, index + 1)
  ELSE << FALSE, material >>

\* SceneManager::FindMaterial(tag, material): the returned bool and the
\* caller's material afterwards
FindMaterial(tag, material) ==
  IF Len(m_objectMaterials) = 0
  THEN [ret |-> FALSE, material |-> material]
  ELSE [ret |-> TRUE, material |-> FindMaterialFrom(tag, material, 0)[2]]

CallFindMaterial(tag, material) ==
  /\ fmTag' = tag
  /\ fmReturn' = FindMaterial(tag, material).ret
  /\ fmMaterial' = FindMaterial(tag, material).material
  /\ UNCHANGED << m_objectMaterials, texVars, pipeVars, sceneVars >>
  /\ UNCHANGED gameVars

NextMat ==
  \/ \E material \in Materials : DefineObjectMaterial(material)
  \/ \E tag \in MaterialQueryTags, material \in CallerMaterials :
       CallFindMaterial(tag, material)

SpecMat == Init /\ [][NextMat]_vars

\* ------------------------------------------------------ the model matrix
\* longest list of uniform pushes without a draw call in between
MaxPushes == 2

\* cosine and sine, in thousandths, of the angles (degrees) the model uses
CosSin ==
  [d \in {0, 90, 180, 270, -10, -40} |->
     CASE d = 0 -> << 1000, 0 >>
       [] d = 90 -> << 0, 1000 >>
       [] d = 180 -> << -1000, 0 >>
       [] d = 270 -> << 0, -1000 >>
       [] d = -10 -> << 985, -174 >>
       [] d = -40 -> << 766, -643 >>]

Identity4 ==
  << << Q, 0, 0, 0 >>, << 0, Q, 0, 0 >>, << 0, 0, Q, 0 >>, << 0, 0, 0, Q >> >>

\* glm: mat4 * mat4
Dot(A, B, r, c) ==
  (A[r][1] * B[1][c] + A[r][2] * B[2][c]
     + A[r][3] * B[3][c] + A[r][4] * B[4][c]) \div Q

MatMulRow(A, B, r) ==
  << Dot(A, B, r, 1), Dot(A, B, r, 2), Dot(A, B, r, 3), Dot(A, B, r, 4) >>

MatMul(A, B) ==
  << MatMulRow(A, B, 1), MatMulRow(A, B, 2), MatMulRow(A, B, 3),
     MatMulRow(A, B, 4) >>

\* glm: mat4 * vec4(p, 1), the first three components
MatVecRow(A, p, r) ==
  (A[r][1] * p[1] + A[r][2] * p[2] + A[r][3] * p[3] + A[r][4] * Q) \div Q

MatVec(A, p) == << MatVecRow(A, p, 1), MatVecRow(A, p, 2), MatVecRow(A, p, 3) >>

\* glm::scale(v)
glmScale(v) ==
  << << v[1], 0, 0, 0 >>, << 0, v[2], 0, 0 >>, << 0, 0, v[3], 0 >>,
     << 0, 0, 0, Q >> >>

\* glm::translate(v)
glmTranslate(v) ==
  << << Q, 0, 0, v[1] >>, << 0, Q, 0, v[2] >>, << 0, 0, Q, v[3] >>,
     << 0, 0, 0, Q >> >>

\* the cross-product matrix of axis
CrossMatrix(axis) ==
  << << 0, -axis[3], axis[2] >>,
     << axis[3], 0, -axis[1] >>,
     << -axis[2], axis[1], 0 >> >>

\* glmRotate turning the other way round
glmRotate_Clockwise(degrees, axis) ==
  LET c == CosSin[degrees][1]
      s == -CosSin[degrees][2]
      K == CrossMatrix(axis)
      e(r, k) == (IF r = k THEN c ELSE 0) + (Q - c) * axis[r] * axis[k]
                   + s * K[r][k]
  IN  << << e(1, 1), e(1, 2), e(1, 3), 0 >>,
         << e(2, 1), e(2, 2), e(2, 3), 0 >>,
         << e(3, 1), e(3, 2), e(3, 3), 0 >>,
         << 0, 0, 0, Q >> >>

\* glm::rotate(glm::radians(degrees), axis) for a unit axis with components
\* 0 or 1
glmRotate(degrees, axis) ==
  LET c == CosSin[degrees][1]
      s == CosSin[degrees][2]
      K == CrossMatrix(axis)
      e(r, k) == (IF r = k THEN c ELSE 0) + (Q - c) * axis[r] * axis[k]
                   + s * K[r][k]
  IN  << << e(1, 1), e(1, 2), e(1, 3), 0 >>,
         << e(2, 1), e(2, 2), e(2, 3), 0 >>,
         << e(3, 1), e(3, 2), e(3, 3), 0 >>,
         << 0, 0, 0, Q >> >>

\* the product taken the other way round: scale applied last
ModelMatrix_Reversed(scaleXYZ, XrotationDegrees, YrotationDegrees, ZrotationDegrees, positionXYZ) ==
  LET scale == glmScale(scaleXYZ)
      rotationX == glmRotate(XrotationDegrees, << 1, 0, 0 >>)
      rotationY == glmRotate(YrotationDegrees, << 0, 1, 0 >>)
      rotationZ == glmRotate(ZrotationDegrees, << 0, 0, 1 >>)
      translation == glmTranslate(positionXYZ)
  IN  MatMul(MatMul(MatMul(MatMul(scale, rotationX), rotationY), rotationZ),
             translation)

\* modelView of SetTransformations
ModelMatrix(scaleXYZ, XrotationDegrees, YrotationDegrees, ZrotationDegrees, positionXYZ) ==
  LET scale == glmScale(scaleXYZ)
      rotationX == glmRotate(XrotationDegrees, << 1, 0, 0 >>)
      rotationY == glmRotate(YrotationDegrees, << 0, 1, 0 >>)
      rotationZ == glmRotate(ZrotationDegrees, << 0, 0, 1 >>)
      translation == glmTranslate(positionXYZ)
  IN  MatMul(MatMul(MatMul(MatMul(translation, rotationZ), rotationY),
                    rotationX),
             scale)

\* the list of pushes, one more uniform push noted: its kind and the tag it
\* was asked for ("" when the call takes no tag)
Pushed(kind, arg) == Append(pushes, [kind |-> kind, arg |-> arg])

\* SceneManager::SetTransformations
SetTransformations(scaleXYZ, XrotationDegrees, YrotationDegrees, ZrotationDegrees, positionXYZ) ==
  IF m_pShaderManager # "NULL"
  THEN /\ uniform' =
            [uniform EXCEPT
               !["model"] = ModelMatrix(scaleXYZ, XrotationDegrees,
                                        YrotationDegrees, ZrotationDegrees,
                                        positionXYZ)]
       /\ pushes' = Pushed("model", "")
  ELSE UNCHANGED << uniform, pushes >>

\* m_basicMeshes->Draw...Mesh(): the draw call consumes the pushed uniforms
DrawMesh == pushes' = << >> /\ UNCHANGED << uniform >>

\* argument values the transformation is tried with
XfScales == { << 2 * Q, Q, Q >>, << 2 * Q, 3 * Q, Q >> }
XfDegrees == {0, 90, 180, 270}
XfPositions == { << Q, 0, 0 >>, << Q, -2 * Q, 3 * Q >> }
XfPoints == { << Q, 0, 0 >>, << 0, Q, 0 >>, << 0, 0, Q >>,
              << Q, 2 * Q, 3 * Q >> }

\* one transformation block of RenderScene: the locals are assigned, then
\* SetTransformations is called with them
CallSetTransformations ==
  /\ phase = "alive"
  /\ Len(pushes) < MaxPushes
  /\ \E s \in XfScales, rx \in XfDegrees, ry \in XfDegrees, rz \in XfDegrees,
        p \in XfPositions :
       /\ locals' = [scaleXYZ |-> s, XrotationDegrees |-> rx,
                     YrotationDegrees |-> ry, ZrotationDegrees |-> rz,
                     positionXYZ |-> p]
       /\ SetTransformations(s, rx, ry, rz, p)
  /\ UNCHANGED << texVars, matVars, sceneVars >>
  /\ UNCHANGED gameVars

CallDrawMesh ==
  /\ phase = "alive"
  /\ DrawMesh
  /\ UNCHANGED << locals, texVars, matVars, sceneVars >>
  /\ UNCHANGED gameVars

NextXf ==
  \/ CallSetTransformations
  \/ CallDrawMesh

SpecXf == Init /\ [][NextXf]_vars

\* ------------------------------------------------- colour and texture
\* most textures registered while colour and texture calls are interleaved
MaxShadeTextures == 2

\* SetShaderColor that leaves the use-texture flag as it is
SetShaderColor_KeepsFlag(redColorValue, greenColorValue, blueColorValue, alphaValue) ==
  IF m_pShaderManager # "NULL"
  THEN /\ uniform' =
            [uniform EXCEPT
               !["objectColor"] = << redColorValue, greenColorValue,
                                     blueColorValue, alphaValue >>]
       /\ pushes' = Pushed("color", "")
  ELSE UNCHANGED << uniform, pushes >>

\* SceneManager::SetShaderColor
SetShaderColor(redColorValue, greenColorValue, blueColorValue, alphaValue) ==
  IF m_pShaderManager # "NULL"
  THEN /\ uniform' =
            [uniform EXCEPT
               !["bUseTexture"] = FALSE,
               !["objectColor"] = << redColorValue, greenColorValue,
                                     blueColorValue, alphaValue >>]
       /\ pushes' = Pushed("color", "")
  ELSE UNCHANGED << uniform, pushes >>

\* SceneManager::SetShaderTexture
SetShaderTexture(textureTag) ==
  IF m_pShaderManager # "NULL"
  THEN /\ uniform' =
            [uniform EXCEPT
               !["bUseTexture"] = TRUE,
               !["objectTexture"] = FindTextureSlot(textureTag)]
       /\ pushes' = Pushed("texture", textureTag)
  ELSE UNCHANGED << uniform, pushes >>

\* SetTextureUVScale adding to the scale instead of setting it
SetTextureUVScale_Accumulates(u, v) ==
  IF m_pShaderManager # "NULL"
  THEN /\ uniform' =
            [uniform EXCEPT
               !["UVscale"] = << uniform["UVscale"][1] + u,
                                 uniform["UVscale"][2] + v >>]
       /\ pushes' = Pushed("uv", "")
  ELSE UNCHANGED << uniform, pushes >>

\* SceneManager::SetTextureUVScale
SetTextureUVScale(u, v) ==
  IF m_pShaderManager # "NULL"
  THEN /\ uniform' = [uniform EXCEPT !["UVscale"] = << u, v >>]
       /\ pushes' = Pushed("uv", "")
  ELSE UNCHANGED << uniform, pushes >>

\* colours (ten-thousandths), tags and images the calls are tried with
ShadeColors == { << 8400, 8019, 7056, 10000 >>, << 1187, 986, 3400, 10000 >> }
ShadeTags == {"ground", "snow"}
ShadeQueryTags == ShadeTags \cup {"nose"}
ShadeImages ==
  {im \in Images : ~im.decoded \/ im.colorChannels = 3}

ShadeCreateGLTexture ==
  /\ m_loadedTextures < MaxShadeTextures
  /\ \E tag \in ShadeTags, image \in ShadeImages : CreateGLTexture(tag, image)
  /\ UNCHANGED << pipeVars, sceneVars >>
  /\ UNCHANGED gameVars

CallSetShaderColor ==
  /\ phase = "alive"
  /\ Len(pushes) < MaxPushes
  /\ \E c \in ShadeColors : SetShaderColor(c[1], c[2], c[3], c[4])
  /\ UNCHANGED << locals, texVars, matVars, sceneVars >>
  /\ UNCHANGED gameVars

CallSetShaderTexture ==
  /\ phase = "alive"
  /\ Len(pushes) < MaxPushes
  /\ \E tag \in ShadeQueryTags : SetShaderTexture(tag)
  /\ UNCHANGED << locals, texVars, matVars, sceneVars >>
  /\ UNCHANGED gameVars

NextShade ==
  \/ ShadeCreateGLTexture
  \/ CallSetShaderColor
  \/ CallSetShaderTexture
  \/ CallDrawMesh

SpecShade == Init /\ [][NextShade]_vars

\* ------------------------------------------------------ material pushes
\* SceneManager::SetShaderMaterial; the local OBJECT_MATERIAL is not
\* initialised, and m_pShaderManager is used without a NULL test
SetShaderMaterial(materialTag) ==
  IF Len(m_objectMaterials) > 0
  THEN \E material \in CallerMaterials :
         LET found == FindMaterial(materialTag, material) IN
         IF found.ret
         THEN IF m_pShaderManager = "NULL"
              THEN /\ phase' = "crashed"
                   /\ UNCHANGED << uniform, pushes >>
              ELSE /\ uniform' =
                        [uniform EXCEPT
                           !["material.diffuseColor"] =
                              found.material.diffuseColor,
                           !["material.specularColor"] =
                              found.material.specularColor,
                           !["material.shininess"] = found.material.shininess]
                   /\ pushes' = Pushed("material", materialTag)
                   /\ UNCHANGED phase
         ELSE UNCHANGED << uniform, pushes, phase >>
  ELSE UNCHANGED << uniform, pushes, phase >>

\* the texture registry and the GL state without the program's phase
tableVars ==
  << m_textureIDs, m_loadedTextures, oob, m_pShaderManager, m_basicMeshes,
     bReturn, glNames, glDeleted, glActiveUnit, glBound, registered >>

CallSetShaderMaterial ==
  /\ phase = "alive"
  /\ Len(pushes) < MaxPushes
  /\ \E tag \in MaterialQueryTags : SetShaderMaterial(tag)
  /\ UNCHANGED << locals, tableVars, matVars, sceneVars >>
  /\ UNCHANGED gameVars

NextMatPush ==
  \/ \E material \in Materials : DefineObjectMaterial(material)
  \/ CallSetShaderMaterial
  \/ CallDrawMesh

SpecMatPush == Init /\ [][NextMatPush]_vars

\* ------------------------------------------------------------ the scene
\* the calls of RenderScene, in the order of the source; line is the line of
\* the call, lengths are in thousandths, colours in ten-thousandths
XformOp(line, scaleXYZ, XrotationDegrees, YrotationDegrees, ZrotationDegrees, positionXYZ) ==
  [op |-> "SetTransformations", line |-> line, scaleXYZ |-> scaleXYZ,
   XrotationDegrees |-> XrotationDegrees,
   YrotationDegrees |-> YrotationDegrees,
   ZrotationDegrees |-> ZrotationDegrees, positionXYZ |-> positionXYZ]
ColorOp(line, color) == [op |-> "SetShaderColor", line |-> line, color |-> color]
TextureOp(line, tag) == [op |-> "SetShaderTexture", line |-> line, tag |-> tag]
MaterialOp(line, tag) == [op |-> "SetShaderMaterial", line |-> line, tag |-> tag]
UVOp(line, uv) == [op |-> "SetTextureUVScale", line |-> line, uv |-> uv]
DrawOp(line, mesh) == [op |-> "Draw", line |-> line, mesh |-> mesh]

\* RenderScene of src/SceneManager.cpp
FinalOps ==
  << XformOp(648, << 20000, 1000, 10000 >>, 0, 0, 0,
            << 0, 0, 0 >>),
     ColorOp(655, << 8400, 8019, 7056, 10000 >>),
     TextureOp(656, "ground"),
     MaterialOp(657, "sand"),
     DrawOp(659, "DrawPlaneMesh"),
     XformOp(674, << 20000, 1000, 10000 >>, 90, 0, 0,
            << 0, 9000, -10000 >>),
     ColorOp(682, << 1187, 986, 3400, 10000 >>),
     TextureOp(683, "snow"),
     DrawOp(684, "DrawPlaneMesh"),
     XformOp(699, << 2500, 2500, 2500 >>, 180, 0, 0,
            << 6000, 2000, 5000 >>),
     TextureOp(706, "snowman"),
     MaterialOp(707, "pearl"),
     DrawOp(708, "DrawSphereMesh"),
     XformOp(723, << 2000, 2000, 2000 >>, 180, 0, 0,
            << 6000, 5000, 5000 >>),
     TextureOp(730, "snowman"),
     MaterialOp(731, "pearl"),
     DrawOp(732, "DrawSphereMesh"),
     XformOp(748, << 1500, 1500, 1500 >>, 180, 0, 0,
            << 6000, 7500, 5000 >>),
     TextureOp(755, "snowman"),
     MaterialOp(756, "pearl"),
     DrawOp(757, "DrawSphereMesh"),
     XformOp(772, << 300, 1700, 500 >>, 0, 180, 90,
            << 5000, 7500, 6000 >>),
     ColorOp(780, << 9100, 4345, 455, 10000 >>),
     TextureOp(781, "nose"),
     UVOp(782, << 1000, 1000 >>),
     MaterialOp(783, "carrot"),
     DrawOp(784, "DrawConeMesh"),
     XformOp(801, << 1000, 2500, 1000 >>, 180, 0, 0,
            << 6000, 11000, 5000 >>),
     TextureOp(808, "tophat"),
     MaterialOp(809, "hat"),
     DrawOp(810, "DrawCylinderMesh"),
     XformOp(826, << 1500, 250, 1500 >>, 180, 0, -10,
            << 6000, 9000, 5000 >>),
     TextureOp(833, "tophat"),
     MaterialOp(834, "hat"),
     DrawOp(835, "DrawCylinderMesh"),
     XformOp(850, << 4500, 16000, 4500 >>, 0, 0, 0,
            << -3000, 100, -2000 >>),
     TextureOp(857, "tree"),
     MaterialOp(858, "tree"),
     DrawOp(859, "DrawConeMesh"),
     XformOp(874, << 2500, 1500, 1500 >>, 0, -40, 0,
            << 7000, 1000, 8000 >>),
     TextureOp(881, "giftbox"),
     MaterialOp(882, "gift"),
     DrawOp(883, "DrawBoxMesh"),
     XformOp(898, << 2000, 2000, 2000 >>, 90, 0, 0,
            << -13000, 17000, -7000 >>),
     TextureOp(906, "moon"),
     MaterialOp(907, "silver"),
     DrawOp(908, "DrawSphereMesh"),
     XformOp(923, << 800, 800, 3000 >>, 90, 90, 0,
            << 0, 750, 7000 >>),
     TextureOp(930, "turret"),
     MaterialOp(931, "sand"),
     DrawOp(932, "DrawTorusMesh"),
     XformOp(947, << 150, 150, 150 >>, 0, 0, 90,
            << -3000, 1500, 2000 >>),
     TextureOp(954, "purplelight"),
     MaterialOp(955, "lights"),
     DrawOp(956, "DrawSphereMesh"),
     XformOp(970, << 150, 150, 150 >>, 0, 0, 90,
            << -1000, 1500, 1600 >>),
     TextureOp(977, "purplelight"),
     MaterialOp(978, "lights"),
     DrawOp(979, "DrawSphereMesh"),
     XformOp(993, << 150, 150, 150 >>, 0, 0, 90,
            << 750, 1500, 0 >>),
     TextureOp(1000, "purplelight"),
     MaterialOp(1001, "lights"),
     DrawOp(1002, "DrawSphereMesh"),
     XformOp(1016, << 150, 150, 150 >>, 0, 0, 90,
            << -5000, 1500, 1600 >>),
     TextureOp(1023, "purplelight"),
     MaterialOp(1024, "lights"),
     DrawOp(1025, "DrawSphereMesh"),
     XformOp(1039, << 150, 150, 150 >>, 0, 0, 90,
            << -3000, 4500, 1300 >>),
     TextureOp(1046, "purplelight"),
     MaterialOp(1047, "lights"),
     DrawOp(1048, "DrawSphereMesh"),
     XformOp(1062, << 150, 150, 150 >>, 0, 0, 90,
            << -1000, 4500, 750 >>),
     TextureOp(1069, "purplelight"),
     MaterialOp(1070, "lights"),
     DrawOp(1071, "DrawSphereMesh"),
     XformOp(1085, << 150, 150, 150 >>, 0, 0, 90,
            << -250, 4500, -250 >>),
     TextureOp(1092, "purplelight"),
     MaterialOp(1093, "lights"),
     DrawOp(1094, "DrawSphereMesh"),
     XformOp(1108, << 150, 150, 150 >>, 0, 0, 90,
            << -5000, 4500, 750 >>),
     TextureOp(1115, "purplelight"),
     MaterialOp(1116, "lights"),
     DrawOp(1117, "DrawSphereMesh"),
     XformOp(1131, << 150, 150, 150 >>, 0, 0, 90,
            << -3000, 7500, 500 >>),
     TextureOp(1138, "purplelight"),
     MaterialOp(1139, "lights"),
     DrawOp(1140, "DrawSphereMesh"),
     XformOp(1154, << 150, 150, 150 >>, 0, 0, 90,
            << -1000, 7500, -500 >>),
     TextureOp(1161, "purplelight"),
     MaterialOp(1162, "lights"),
     DrawOp(1163, "DrawSphereMesh"),
     XformOp(1177, << 150, 150, 150 >>, 0, 0, 90,
            << -5000, 7500, -400 >>),
     TextureOp(1184, "purplelight"),
     MaterialOp(1185, "lights"),
     DrawOp(1186, "DrawSphereMesh"),
     XformOp(1200, << 150, 150, 150 >>, 0, 0, 90,
            << -3000, 11500, -600 >>),
     TextureOp(1207, "purplelight"),
     MaterialOp(1208, "lights"),
     DrawOp(1209, "DrawSphereMesh"),
     XformOp(1223, << 150, 150, 150 >>, 0, 0, 90,
            << -2000, 11500, -1000 >>),
     TextureOp(1230, "purplelight"),
     MaterialOp(1231, "lights"),
     DrawOp(1232, "DrawSphereMesh"),
     XformOp(1246, << 150, 150, 150 >>, 0, 0, 90,
            << -4000, 11500, -1000 >>),
     TextureOp(1253, "purplelight"),
     MaterialOp(1254, "lights"),
     DrawOp(1255, "DrawSphereMesh"),
     XformOp(1269, << 300, 300, 300 >>, 0, 0, 0,
            << -2000, 3000, 1750 >>),
     TextureOp(1277, "ornaments"),
     MaterialOp(1278, "ornament"),
     DrawOp(1279, "DrawSphereMesh"),
     XformOp(1292, << 300, 300, 300 >>, 0, 0, 0,
            << -4000, 4000, 1550 >>),
     TextureOp(1299, "ornaments"),
     MaterialOp(1300, "ornament"),
     DrawOp(1301, "DrawSphereMesh"),
     XformOp(1314, << 300, 300, 300 >>, 0, 0, 0,
            << -1250, 6000, 500 >>),
     TextureOp(1321, "ornaments"),
     MaterialOp(1322, "ornament"),
     DrawOp(1323, "DrawSphereMesh"),
     XformOp(1336, << 300, 300, 300 >>, 0, 0, 0,
            << -3000, 9000, 250 >>),
     TextureOp(1343, "ornaments"),
     MaterialOp(1344, "ornament"),
     DrawOp(1345, "DrawSphereMesh"),
     XformOp(1358, << 300, 300, 300 >>, 0, 0, 0,
            << -2750, 12750, -800 >>),
     TextureOp(1365, "ornaments"),
     MaterialOp(1366, "ornament"),
     DrawOp(1367, "DrawSphereMesh") >>

\* RenderScene of src/unnamed/part_000
MilestoneOps ==
  << XformOp(180, << 20000, 1000, 10000 >>, 0, 0, 0,
            << 0, 0, 0 >>),
     ColorOp(187, << 8400, 8019, 7056, 10000 >>),
     DrawOp(190, "DrawPlaneMesh"),
     XformOp(209, << 20000, 1000, 10000 >>, 90, 0, 0,
            << 0, 9000, -10000 >>),
     ColorOp(217, << 1187, 986, 3400, 10000 >>),
     DrawOp(220, "DrawPlaneMesh"),
     XformOp(235, << 2500, 2500, 2500 >>, 180, 0, 0,
            << 6000, 4000, 5000 >>),
     ColorOp(242, << 9312, 9700, 9674, 10000 >>),
     DrawOp(243, "DrawSphereMesh"),
     XformOp(258, << 2000, 2000, 2000 >>, 180, 0, 0,
            << 6000, 7000, 5000 >>),
     ColorOp(266, << 9312, 9700, 9674, 10000 >>),
     DrawOp(267, "DrawSphereMesh"),
     XformOp(279, << 1500, 1500, 1500 >>, 180, 0, 0,
            << 6000, 9500, 5000 >>),
     ColorOp(286, << 9312, 9700, 9674, 10000 >>),
     DrawOp(287, "DrawSphereMesh"),
     XformOp(300, << 300, 1500, 1500 >>, 0, 180, 90,
            << 4800, 9500, 5000 >>),
     ColorOp(307, << 9100, 4345, 455, 10000 >>),
     DrawOp(308, "DrawConeMesh"),
     XformOp(321, << 1000, 2500, 1000 >>, 180, 0, 0,
            << 6000, 13000, 5000 >>),
     ColorOp(328, << 300, 135, 0, 10000 >>),
     DrawOp(329, "DrawCylinderMesh"),
     XformOp(341, << 1500, 250, 1500 >>, 180, 0, -10,
            << 6000, 11000, 5000 >>),
     ColorOp(348, << 300, 135, 0, 10000 >>),
     DrawOp(349, "DrawCylinderMesh") >>

\* the materials DefineObjectMaterials defines (colours in thousandths,
\* shininess in hundredths)
SceneMaterials ==
  << [tag |-> "sand", diffuseColor |-> << 714, 428, 181 >>,
      specularColor |-> << 394, 272, 167 >>, shininess |-> 2000],
     [tag |-> "silver", diffuseColor |-> << 0, 0, 0 >>,
      specularColor |-> << 0, 0, 0 >>, shininess |-> 5200],
     [tag |-> "pearl", diffuseColor |-> << 1000, 829, 829 >>,
      specularColor |-> << 297, 297, 297 >>, shininess |-> 2500],
     [tag |-> "carrot", diffuseColor |-> << 704, 270, 83 >>,
      specularColor |-> << 257, 138, 86 >>, shininess |-> 1000],
     [tag |-> "hat", diffuseColor |-> << 10, 10, 10 >>,
      specularColor |-> << 500, 500, 500 >>, shininess |-> 2500],
     [tag |-> "tree", diffuseColor |-> << 200, 200, 200 >>,
      specularColor |-> << 0, 0, 0 >>, shininess |-> 10],
     [tag |-> "gift", diffuseColor |-> << 500, 0, 0 >>,
      specularColor |-> << 700, 600, 600 >>, shininess |-> 25],
     [tag |-> "ornament", diffuseColor |-> << 396, 742, 691 >>,
      specularColor |-> << 297, 308, 307 >>, shininess |-> 2500],
     [tag |-> "lights", diffuseColor |-> << 752, 606, 226 >>,
      specularColor |-> << 628, 556, 366 >>, shininess |-> 5000] >>

\* most image files that fail to load, and most RenderScene calls
MaxFailedLoads == 1
MaxFrames == 3

\* the tags LoadSceneTextures registers, in its order
SceneTextureTags == SubSeq(AllTags, 1, 11)

\* an image file of the scene loads (three channels) or is missing
SceneImages == {im \in Images : ~im.decoded \/ im.colorChannels = 3}

FailedLoads ==
  Cardinality({i \in 1..Len(attempts) : ~attempts[i].bReturn})

\* RenderScene with one more draw call in front of everything else
RenderSceneOps_DrawFirst(b) ==
  << DrawOp(0, "DrawPlaneMesh") >>
    \o (IF b = "final" THEN FinalOps ELSE MilestoneOps)

RenderSceneOps(b) == IF b = "final" THEN FinalOps ELSE MilestoneOps

At(at, ip) == [at |-> at, ip |-> ip]

\* PrepareScene is entered: the build that runs, and what the linked shader
\* program holds for UVscale, are not known to SceneManager
PrepareScene ==
  /\ pc.at = "constructed"
  /\ phase = "alive"
  /\ \E b \in {"final", "milestone"}, uv \in InitialUVscales :
       /\ build' = b
       /\ uniform' = InitUniform(uv)
       /\ pc' = IF b = "final"
                THEN At("LoadSceneTextures", 1)
                ELSE At("LoadMeshes", 0)
  /\ UNCHANGED << texVars, matVars, pushes, locals, frame, frameLog,
                  prevFrame, attempts, bindCalls >>
  /\ UNCHANGED gameVars

\* LoadSceneTextures giving up at the first image that fails
LoadSceneTextures_AbortsOnFailure ==
  /\ pc.at = "LoadSceneTextures"
  /\ \E image \in SceneImages :
       /\ ~image.decoded => FailedLoads < MaxFailedLoads
       /\ CreateGLTexture(SceneTextureTags[pc.ip], image)
  /\ attempts' = Append(attempts, [tag |-> SceneTextureTags[pc.ip],
                                   bReturn |-> bReturn'])
  /\ pc' = IF pc.ip < Len(SceneTextureTags) /\ bReturn'
           THEN At("LoadSceneTextures", pc.ip + 1)
           ELSE At("BindGLTextures", 0)
  /\ UNCHANGED << pipeVars, build, frame, frameLog, prevFrame, bindCalls >>
  /\ UNCHANGED gameVars

\* LoadSceneTextures, one CreateGLTexture call: bReturn is assigned and
\* never looked at
LoadSceneTextures ==
  /\ pc.at = "LoadSceneTextures"
  /\ \E image \in SceneImages :
       /\ ~image.decoded => FailedLoads < MaxFailedLoads
       /\ CreateGLTexture(SceneTextureTags[pc.ip], image)
  /\ attempts' = Append(attempts, [tag |-> SceneTextureTags[pc.ip],
                                   bReturn |-> bReturn'])
  /\ pc' = IF pc.ip < Len(SceneTextureTags)
           THEN At("LoadSceneTextures", pc.ip + 1)
           ELSE At("BindGLTextures", 0)
  /\ UNCHANGED << pipeVars, build, frame, frameLog, prevFrame, bindCalls >>
  /\ UNCHANGED gameVars

\* LoadSceneTextures, its last statement: BindGLTextures()
LoadSceneTexturesBind ==
  /\ pc.at = "BindGLTextures"
  /\ BindGLTextures
  /\ bindCalls' = bindCalls + 1
  /\ pc' = At("DefineObjectMaterials", 0)
  /\ UNCHANGED << pipeVars, build, frame, frameLog, prevFrame, attempts >>
  /\ UNCHANGED gameVars

\* DefineObjectMaterials without its last material, "lights"
DefineObjectMaterials_NoLights ==
  /\ pc.at = "DefineObjectMaterials"
  /\ phase = "alive"
  /\ m_objectMaterials' =
       m_objectMaterials \o SubSeq(SceneMaterials, 1, Len(SceneMaterials) - 1)
  /\ pc' = At("SetupSceneLights", 0)
  /\ UNCHANGED << fmTag, fmReturn, fmMaterial, texVars, pipeVars, build,
                  frame, frameLog, prevFrame, attempts, bindCalls >>
  /\ UNCHANGED gameVars

\* SceneManager::DefineObjectMaterials
DefineObjectMaterials ==
  /\ pc.at = "DefineObjectMaterials"
  /\ phase = "alive"
  /\ m_objectMaterials' = m_objectMaterials \o SceneMaterials
  /\ pc' = At("SetupSceneLights", 0)
  /\ UNCHANGED << fmTag, fmReturn, fmMaterial, texVars, pipeVars, build,
                  frame, frameLog, prevFrame, attempts, bindCalls >>
  /\ UNCHANGED gameVars

\* the uniforms u after the writes, one after the other
RECURSIVE LightsWritten(_, _)
LightsWritten(u, writes) ==
  IF writes = << >>
  THEN u
  ELSE LightsWritten([u EXCEPT ![Head(writes)[1]] = Head(writes)[2]],
                     Tail(writes))

\* SetupSceneLights without its last write, pointLights[2].bActive
SetupSceneLights_TwoPointLights ==
  IF m_pShaderManager = "NULL"
  THEN phase' = "crashed" /\ UNCHANGED uniform
  ELSE /\ uniform' =
            LightsWritten(uniform,
                          SubSeq(LightWrites, 1, Len(LightWrites) - 1))
       /\ UNCHANGED phase

\* SceneManager::SetupSceneLights: m_pShaderManager is used without a NULL
\* test
SetupSceneLights ==
  IF m_pShaderManager = "NULL"
  THEN phase' = "crashed" /\ UNCHANGED uniform
  ELSE uniform' = LightsWritten(uniform, LightWrites) /\ UNCHANGED phase

\* PrepareScene, the SetupSceneLights() call
PrepareSetupSceneLights ==
  /\ pc.at = "SetupSceneLights"
  /\ phase = "alive"
  /\ SetupSceneLights
  /\ pc' = At("LoadMeshes", 0)
  /\ UNCHANGED << tableVars, matVars, pushes, locals, build, frame, frameLog,
                  prevFrame, attempts, bindCalls >>
  /\ UNCHANGED gameVars

\* PrepareScene, the m_basicMeshes->Load...Mesh() calls
LoadMeshes ==
  /\ pc.at = "LoadMeshes"
  /\ phase = "alive"
  /\ pc' = At("ready", 0)
  /\ UNCHANGED << texVars, matVars, pipeVars, build, frame, frameLog,
                  prevFrame, attempts, bindCalls >>
  /\ UNCHANGED gameVars

\* RenderScene is called: its locals are declared
RenderSceneEnter ==
  /\ pc.at = "ready"
  /\ phase = "alive"
  /\ frame < MaxFrames
  /\ frame' = frame + 1
  /\ frameLog' = << >>
  /\ locals' = NoLocals
  /\ pc' = At("RenderScene", 1)
  /\ UNCHANGED << texVars, matVars, uniform, pushes, build, prevFrame,
                  attempts, bindCalls >>
  /\ UNCHANGED gameVars

\* the call RenderScene is at
CurrentOp == RenderSceneOps(build)[pc.ip]

InRenderScene(op) ==
  /\ pc.at = "RenderScene"
  /\ phase = "alive"
  /\ pc.ip <= Len(RenderSceneOps(build))
  /\ CurrentOp.op = op

\* what a draw call sees of the uniforms
Observed ==
  [model |-> uniform["model"], objectColor |-> uniform["objectColor"],
   bUseTexture |-> uniform["bUseTexture"],
   objectTexture |-> uniform["objectTexture"],
   diffuseColor |-> uniform["material.diffuseColor"],
   specularColor |-> uniform["material.specularColor"],
   shininess |-> uniform["material.shininess"],
   UVscale |-> uniform["UVscale"]]

\* the locals are assigned and SetTransformations is called with them
RenderSetTransformations ==
  /\ InRenderScene("SetTransformations")
  /\ locals' = [scaleXYZ |-> CurrentOp.scaleXYZ,
                XrotationDegrees |-> CurrentOp.XrotationDegrees,
                YrotationDegrees |-> CurrentOp.YrotationDegrees,
                ZrotationDegrees |-> CurrentOp.ZrotationDegrees,
                positionXYZ |-> CurrentOp.positionXYZ]
  /\ SetTransformations(CurrentOp.scaleXYZ, CurrentOp.XrotationDegrees,
                        CurrentOp.YrotationDegrees,
                        CurrentOp.ZrotationDegrees, CurrentOp.positionXYZ)
  /\ pc' = At("RenderScene", pc.ip + 1)
  /\ UNCHANGED << texVars, matVars, build, frame, frameLog, prevFrame,
                  attempts, bindCalls >>
  /\ UNCHANGED gameVars

RenderSetShaderColor ==
  /\ InRenderScene("SetShaderColor")
  /\ SetShaderColor(CurrentOp.color[1], CurrentOp.color[2],
                    CurrentOp.color[3], CurrentOp.color[4])
  /\ pc' = At("RenderScene", pc.ip + 1)
  /\ UNCHANGED << texVars, matVars, locals, build, frame, frameLog,
                  prevFrame, attempts, bindCalls >>
  /\ UNCHANGED gameVars

RenderSetShaderTexture ==
  /\ InRenderScene("SetShaderTexture")
  /\ SetShaderTexture(CurrentOp.tag)
  /\ pc' = At("RenderScene", pc.ip + 1)
  /\ UNCHANGED << texVars, matVars, locals, build, frame, frameLog,
                  prevFrame, attempts, bindCalls >>
  /\ UNCHANGED gameVars

\* a material call that defines the material it was asked for
RenderSetShaderMaterial_Defines ==
  /\ InRenderScene("SetShaderMaterial")
  /\ SetShaderMaterial(CurrentOp.tag)
  /\ m_objectMaterials' =
       Append(m_objectMaterials, [EmptyMaterial EXCEPT !.tag = CurrentOp.tag])
  /\ pc' = At("RenderScene", pc.ip + 1)
  /\ UNCHANGED << tableVars, fmTag, fmReturn, fmMaterial, locals, build,
                  frame, frameLog, prevFrame, attempts, bindCalls >>
  /\ UNCHANGED gameVars

RenderSetShaderMaterial ==
  /\ InRenderScene("SetShaderMaterial")
  /\ SetShaderMaterial(CurrentOp.tag)
  /\ pc' = At("RenderScene", pc.ip + 1)
  /\ UNCHANGED << tableVars, matVars, locals, build, frame, frameLog,
                  prevFrame, attempts, bindCalls >>
  /\ UNCHANGED gameVars

RenderSetTextureUVScale ==
  /\ InRenderScene("SetTextureUVScale")
  /\ SetTextureUVScale(CurrentOp.uv[1], CurrentOp.uv[2])
  /\ pc' = At("RenderScene", pc.ip + 1)
  /\ UNCHANGED << texVars, matVars, locals, build, frame, frameLog,
                  prevFrame, attempts, bindCalls >>
  /\ UNCHANGED gameVars

\* m_basicMeshes->Draw...Mesh(): the mesh is drawn with the uniforms as
\* they are
RenderDraw ==
  /\ InRenderScene("Draw")
  /\ DrawMesh
  /\ frameLog' = Append(frameLog, [mesh |-> CurrentOp.mesh, saw |-> Observed,
                                   pushes |-> pushes])
  /\ pc' = At("RenderScene", pc.ip + 1)
  /\ UNCHANGED << texVars, matVars, locals, build, frame, prevFrame,
                  attempts, bindCalls >>
  /\ UNCHANGED gameVars

\* RenderScene returns
RenderSceneReturn ==
  /\ pc.at = "RenderScene"
  /\ phase = "alive"
  /\ pc.ip = Len(RenderSceneOps(build)) + 1
  /\ prevFrame' = frameLog
  /\ pc' = At("ready", 0)
  /\ UNCHANGED << texVars, matVars, pipeVars, build, frame, frameLog,
                  attempts, bindCalls >>
  /\ UNCHANGED gameVars

NextScene ==
  \/ PrepareScene
  \/ LoadSceneTextures
  \/ LoadSceneTexturesBind
  \/ DefineObjectMaterials
  \/ PrepareSetupSceneLights
  \/ LoadMeshes
  \/ RenderSceneEnter
  \/ RenderSetTransformations
  \/ RenderSetShaderColor
  \/ RenderSetShaderTexture
  \/ RenderSetShaderMaterial
  \/ RenderSetTextureUVScale
  \/ RenderDraw
  \/ RenderSceneReturn

SpecScene == Init /\ [][NextScene]_vars

\* ------------------------------------------------- no shader manager
\* SceneManager::SceneManager(pShaderManager) with pShaderManager = NULL
ConstructWithNull ==
  /\ pc.at = "constructed"
  /\ phase = "alive"
  /\ m_pShaderManager = "sink"
  /\ m_objectMaterials = << >>
  /\ m_pShaderManager' = "NULL"
  /\ UNCHANGED << m_textureIDs, m_loadedTextures, oob, m_basicMeshes, phase,
                  bReturn, glNames, glDeleted, glActiveUnit, glBound,
                  registered, matVars, pipeVars, sceneVars >>
  /\ UNCHANGED gameVars

CallSetTextureUVScale ==
  /\ phase = "alive"
  /\ Len(pushes) < MaxPushes
  /\ \E uv \in InitialUVscales : SetTextureUVScale(uv[1], uv[2])
  /\ UNCHANGED << locals, texVars, matVars, sceneVars >>
  /\ UNCHANGED gameVars

CallSetupSceneLights ==
  /\ phase = "alive"
  /\ SetupSceneLights
  /\ UNCHANGED << tableVars, matVars, pushes, locals, sceneVars >>
  /\ UNCHANGED gameVars

\* the calls made on a SceneManager that was given no shader manager
NullDefineObjectMaterial ==
  /\ m_pShaderManager = "NULL"
  /\ \E material \in Materials : DefineObjectMaterial(material)

NullSetTransformations ==
  /\ m_pShaderManager = "NULL"
  /\ phase = "alive"
  /\ \E s \in XfScales :
       /\ locals' = [scaleXYZ |-> s, XrotationDegrees |-> 0,
                     YrotationDegrees |-> 0, ZrotationDegrees |-> 90,
                     positionXYZ |-> << Q, 0, 0 >>]
       /\ SetTransformations(s, 0, 0, 90, << Q, 0, 0 >>)
  /\ UNCHANGED << texVars, matVars, sceneVars >>
  /\ UNCHANGED gameVars

NullSetShaderColor == m_pShaderManager = "NULL" /\ CallSetShaderColor
NullSetShaderTexture == m_pShaderManager = "NULL" /\ CallSetShaderTexture
NullSetTextureUVScale == m_pShaderManager = "NULL" /\ CallSetTextureUVScale
NullSetShaderMaterial == m_pShaderManager = "NULL" /\ CallSetShaderMaterial
NullSetupSceneLights == m_pShaderManager = "NULL" /\ CallSetupSceneLights

NextNull ==
  \/ ConstructWithNull
  \/ NullDefineObjectMaterial
  \/ NullSetTransformations
  \/ NullSetShaderColor
  \/ NullSetShaderTexture
  \/ NullSetTextureUVScale
  \/ NullSetShaderMaterial
  \/ NullSetupSceneLights

SpecNull == Init /\ [][NextNull]_vars

\* ------------------------------------------------- brick-breaker: a frame
\* Circle::Circle: radius is assigned rr and then rad; speed is 0.01
NewCircle(xx, yy, rr, dir, rad) ==
  [x |-> xx, y |-> yy, radius |-> rad, speed |-> 1, direction |-> dir,
   onoff |-> ON, health |-> 2]

GetRandomDirection_ZeroBased == 0..7

\* Circle::GetRandomDirection: what (rand() % 8) + 1 can give
GetRandomDirection == 1..8

\* the test of CheckCollision: the circle's centre is in the brick's region
InRegion(c, brk) ==
  /\ c.x > brk.x - brk.width
  /\ c.x <= brk.x + brk.width
  /\ c.y > brk.y - brk.width
  /\ c.y <= brk.y + brk.width

\* the circle after a hit: direction drawn, x + 0.03, y + 0.04
Bounced(c, r) == [c EXCEPT !.direction = r, !.x = c.x + 3, !.y = c.y + 4]

CheckCollision_OffBelowZero(c, brk, r) ==
  IF brk.brick_type = REFLECTIVE
  THEN IF InRegion(c, brk)
       THEN [circle |-> Bounced(c, r), brick |-> brk]
       ELSE [circle |-> c, brick |-> brk]
  ELSE IF brk.brick_type = DESTRUCTABLE /\ brk.onoff = ON /\ brk.health > 0
          /\ c.onoff = ON
       THEN IF InRegion(c, brk)
            THEN [circle |-> Bounced(c, r),
                  brick |-> [brk EXCEPT
                               !.health = brk.health - 1,
                               !.onoff = IF brk.health - 1 < 0
                                         THEN OFF ELSE brk.onoff]]
            ELSE [circle |-> c, brick |-> brk]
       ELSE [circle |-> c, brick |-> brk]

CheckCollision_IgnoresOnOff(c, brk, r) ==
  IF brk.brick_type = REFLECTIVE
  THEN IF InRegion(c, brk)
       THEN [circle |-> Bounced(c, r), brick |-> brk]
       ELSE [circle |-> c, brick |-> brk]
  ELSE IF brk.brick_type = DESTRUCTABLE /\ c.onoff = ON
       THEN IF InRegion(c, brk)
            THEN [circle |-> Bounced(c, r),
                  brick |-> [brk EXCEPT
                               !.health = brk.health - 1,
                               !.onoff = IF brk.health - 1 <= 0
                                         THEN OFF ELSE brk.onoff]]
            ELSE [circle |-> c, brick |-> brk]
       ELSE [circle |-> c, brick |-> brk]

\* Circle::CheckCollision(brk), r being what GetRandomDirection gives if it
\* is called: the circle and the brick afterwards
CheckCollision(c, brk, r) ==
  IF brk.brick_type = REFLECTIVE
  THEN IF InRegion(c, brk)
       THEN [circle |-> Bounced(c, r), brick |-> brk]
       ELSE [circle |-> c, brick |-> brk]
  ELSE IF brk.brick_type = DESTRUCTABLE /\ brk.onoff = ON /\ brk.health > 0
          /\ c.onoff = ON
       THEN IF InRegion(c, brk)
            THEN [circle |-> Bounced(c, r),
                  brick |-> [brk EXCEPT
                               !.health = brk.health - 1,
                               !.onoff = IF brk.health - 1 <= 0
                                         THEN OFF ELSE brk.onoff]]
            ELSE [circle |-> c, brick |-> brk]
       ELSE [circle |-> c, brick |-> brk]

\* world[i].CheckCollision(&brick) .. CheckCollision(&brick26), from the k-th
\* on, every draw giving r
RECURSIVE CollideFrom(_, _, _, _)
CollideFrom(c, bs, k, r) ==
  IF k > Len(bs)
  THEN [circle |-> c, bricks |-> bs]
  ELSE LET after == CheckCollision(c, bs[k], r) IN
       CollideFrom(after.circle, [bs EXCEPT ![k] = after.brick], k + 1, r)

\* the 26 CheckCollision calls of one circle: where the circle and the bricks
\* end up does not depend on the directions drawn, and the direction left is
\* the one drawn last, any of GetRandomDirection
CollideAll(c, bs) ==
  LET probe == CollideFrom(c, bs, 1, c.direction) IN
  IF probe.circle.x = c.x
  THEN {probe}
  ELSE {[probe EXCEPT !.circle.direction = r] : r \in GetRandomDirection}

\* Circle::MoveOneStep, its four if statements one after the other
MoveUp(c) ==
  IF c.direction \in {1, 5, 6}
  THEN IF c.y > -100 + c.radius
       THEN {[c EXCEPT !.y = c.y - c.speed]}
       ELSE {[c EXCEPT !.direction = r] : r \in GetRandomDirection}
  ELSE {c}

MoveRight(c) ==
  IF c.direction \in {2, 5, 7}
  THEN IF c.x < 100 - c.radius
       THEN {[c EXCEPT !.x = c.x + c.speed]}
       ELSE {[c EXCEPT !.direction = r] : r \in GetRandomDirection}
  ELSE {c}

MoveDown(c) ==
  IF c.direction \in {3, 7, 8}
  THEN IF c.y < 100 - c.radius
       THEN {[c EXCEPT !.y = c.y + c.speed]}
       ELSE {[c EXCEPT !.direction = r] : r \in GetRandomDirection}
  ELSE {c}

MoveLeft(c) ==
  IF c.direction \in {4, 6, 8}
  THEN IF c.x > -100 + c.radius
       THEN {[c EXCEPT !.x = c.x - c.speed]}
       ELSE {[c EXCEPT !.direction = r] : r \in GetRandomDirection}
  ELSE {c}

\* Circle::MoveOneStep: every circle it can leave
MoveOneStep(c) ==
  UNION {MoveLeft(c3) :
           c3 \in UNION {MoveDown(c2) :
                           c2 \in UNION {MoveRight(c1) : c1 \in MoveUp(c)}}}

\* the body of the for loop of main for one circle: the checks, the move
CircleTurn(c, bs) ==
  UNION {{[circle |-> m, bricks |-> o.bricks] : m \in MoveOneStep(o.circle)} :
           o \in CollideAll(c, bs)}

\* the for loop of main from circle i on: every world and bricks it can leave
RECURSIVE Turns(_, _, _)
Turns(w, bs, i) ==
  IF i > Len(w)
  THEN {[world |-> w, bricks |-> bs]}
  ELSE UNION {Turns([w EXCEPT ![i] = o.circle], o.bricks, i + 1) :
                o \in CircleTurn(w[i], bs)}

\* processInput, the space key: Circle B(0, -0.8, 02, 3, 0.03, r, g, b) is
\* pushed to world (the colours take no part in anything that follows)
Spawned_Replaces(w, space) ==
  IF space THEN << NewCircle(0, -80, 2, 3, 3) >> ELSE w

Spawned(w, space) ==
  IF space THEN Append(w, NewCircle(0, -80, 2, 3, 3)) ELSE w

RECURSIVE DamageFrom(_, _)
DamageFrom(bs, k) ==
  IF k > Len(bs) THEN 0 ELSE (10 - bs[k].health) + DamageFrom(bs, k + 1)

\* health the bricks have lost
Damage(bs) == DamageFrom(bs, 1)

\* ------------------------------------- brick-breaker: one circle, far
\* most health the bricks lose while one circle is followed far
MaxBallDamage == 2

\* a whole frame of main in one step, the space key being pressed only
\* while world is empty
BallFrame ==
  /\ gpc.at = "while"
  /\ ~shouldClose
  /\ \E space \in (IF world = << >> THEN BOOLEAN ELSE {FALSE}) :
       \E o \in Turns(Spawned(world, space), bricks, 1) :
         /\ Damage(o.bricks) <= MaxBallDamage
         /\ world' = o.world
         /\ bricks' = o.bricks
  /\ UNCHANGED << shouldClose, gpc, drawn, startHealth, escSeen,
                  closeRequested, gframe >>
  /\ UNCHANGED << texVars, matVars, pipeVars, sceneVars >>

NextBall == BallFrame

SpecBall == Init /\ [][NextBall]_vars

\* ----------------------------------- brick-breaker: one circle, bricks
\* frames of main followed while the bricks are watched
MaxBrickFrames == 21

\* a whole frame of main in one step, the space key being pressed only
\* while world is empty
BrickFrame ==
  /\ gpc.at = "while"
  /\ ~shouldClose
  /\ gframe < MaxBrickFrames
  /\ gframe' = gframe + 1
  /\ \E space \in (IF world = << >> THEN BOOLEAN ELSE {FALSE}) :
       \E o \in Turns(Spawned(world, space), bricks, 1) :
         /\ world' = o.world
         /\ bricks' = o.bricks
  /\ UNCHANGED << shouldClose, gpc, drawn, startHealth, escSeen,
                  closeRequested >>
  /\ UNCHANGED << texVars, matVars, pipeVars, sceneVars >>

NextBrick == BrickFrame

SpecBrick == Init /\ [][NextBrick]_vars

\* ------------------------------------- brick-breaker: the loop of main
\* frames of main that are begun
MaxGameFrames == 1

\* circles the space key is let add up to
MaxCircles == 2

\* the health of every brick
Healths(bs) == [b \in 1..Len(bs) |-> bs[b].health]

\* one frame in which rand() gives r at every hit and no wall is met
Replayed(c, bs, r) ==
  LET o == CollideFrom(c, bs, 1, r) IN
  [circle |-> CHOOSE m \in MoveOneStep(o.circle) : TRUE, bricks |-> o.bricks]

RECURSIVE ReplayFrom(_, _, _, _)
ReplayFrom(c, bs, draws, n) ==
  IF c.onoff # ON \/ n > Len(draws)
  THEN [world |-> << c >>, bricks |-> bs]
  ELSE LET o == Replayed(c, bs, draws[n]) IN
       ReplayFrom(o.circle, o.bricks, draws, n + 1)

\* the game 19 frames after the space key was pressed once, rand() having
\* given these directions: the circle is in the region of brick, whose health
\* is 1
MidGame ==
  ReplayFrom(NewCircle(0, -80, 2, 3, 3), InitialBricks,
             << 1, 1, 1, 2, 2, 2, 2, 2, 2, 2, 1, 1, 1, 1, 1, 1, 1, 1, 1 >>, 1)

\* the states the loop of main is followed from
GameStarts == {[world |-> << >>, bricks |-> InitialBricks], MidGame}

GameInit ==
  /\ InitScene
  /\ \E s \in GameStarts :
       /\ bricks = s.bricks
       /\ world = s.world
  /\ shouldClose = FALSE
  /\ gpc = [at |-> "while", i |-> 0]
  /\ drawn = << >>
  /\ startHealth = Healths(bricks)
  /\ escSeen = FALSE
  /\ closeRequested = FALSE
  /\ gframe = 0

\* while (!glfwWindowShouldClose(window)) finds the flag set: the loop is
\* left, the window destroyed, exit called
LoopExit ==
  /\ gpc.at = "while"
  /\ shouldClose
  /\ gpc' = [at |-> "exited", i |-> 0]
  /\ UNCHANGED << bricks, world, shouldClose, drawn, startHealth, escSeen,
                  closeRequested, gframe >>
  /\ UNCHANGED << texVars, matVars, pipeVars, sceneVars >>

\* while (!glfwWindowShouldClose(window)) finds the flag clear: a frame
\* begins (viewport, glClear), as long as fewer than limit frames were begun
FrameBeginWithin(limit) ==
  /\ gpc.at = "while"
  /\ ~shouldClose
  /\ gframe < limit
  /\ gframe' = gframe + 1
  /\ gpc' = [at |-> "input", i |-> 0]
  /\ drawn' = << >>
  /\ startHealth' = Healths(bricks)
  /\ UNCHANGED << bricks, world, shouldClose, escSeen, closeRequested >>
  /\ UNCHANGED << texVars, matVars, pipeVars, sceneVars >>

\* where the loop goes after circle i: the next circle, or the bricks
AfterCircle(w, i) ==
  IF i < Len(w) THEN [at |-> "checks", i |-> i + 1]
  ELSE [at |-> "bricks", i |-> 0]

FrameBegin == FrameBeginWithin(MaxGameFrames)

ProcessInput_IgnoresEscape(esc, space) ==
  /\ gpc.at = "input"
  /\ shouldClose' = shouldClose
  /\ escSeen' = (escSeen \/ esc)
  /\ world' = Spawned(world, space)
  /\ drawn' = Append(drawn, << "input", IF space THEN 1 ELSE 0 >>)
  /\ gpc' = AfterCircle(world', 0)
  /\ UNCHANGED << bricks, startHealth, closeRequested, gframe >>
  /\ UNCHANGED << texVars, matVars, pipeVars, sceneVars >>

\* processInput(window), esc and space being what glfwGetKey gives for the
\* two keys
ProcessInput(esc, space) ==
  /\ gpc.at = "input"
  /\ shouldClose' = (shouldClose \/ esc)
  /\ escSeen' = (escSeen \/ esc)
  /\ world' = Spawned(world, space)
  /\ drawn' = Append(drawn, << "input", IF space THEN 1 ELSE 0 >>)
  /\ gpc' = AfterCircle(world', 0)
  /\ UNCHANGED << bricks, startHealth, closeRequested, gframe >>
  /\ UNCHANGED << texVars, matVars, pipeVars, sceneVars >>

\* the keys a frame may find pressed: space only while world has room
CallProcessInput ==
  \E esc \in BOOLEAN, space \in BOOLEAN :
    /\ space => Len(world) < MaxCircles
    /\ ProcessInput(esc, space)

\* world[i].CheckCollision(&brick) .. world[i].CheckCollision(&brick26)
CircleChecks ==
  /\ gpc.at = "checks"
  /\ \E o \in CollideAll(world[gpc.i], bricks) :
       /\ world' = [world EXCEPT ![gpc.i] = o.circle]
       /\ bricks' = o.bricks
  /\ drawn' = Append(drawn, << "checks", gpc.i >>)
  /\ gpc' = [gpc EXCEPT !.at = "move"]
  /\ UNCHANGED << shouldClose, startHealth, escSeen, closeRequested, gframe >>
  /\ UNCHANGED << texVars, matVars, pipeVars, sceneVars >>

\* world[i].MoveOneStep()
CircleMove ==
  /\ gpc.at = "move"
  /\ \E m \in MoveOneStep(world[gpc.i]) :
       world' = [world EXCEPT ![gpc.i] = m]
  /\ drawn' = Append(drawn, << "move", gpc.i >>)
  /\ gpc' = [gpc EXCEPT !.at = "draw"]
  /\ UNCHANGED << bricks, shouldClose, startHealth, escSeen, closeRequested,
                  gframe >>
  /\ UNCHANGED << texVars, matVars, pipeVars, sceneVars >>

\* world[i].DrawCircle(), and i++
CircleDraw ==
  /\ gpc.at = "draw"
  /\ drawn' = Append(drawn, << "circle", gpc.i >>)
  /\ gpc' = AfterCircle(world, gpc.i)
  /\ UNCHANGED << bricks, world, shouldClose, startHealth, escSeen,
                  closeRequested, gframe >>
  /\ UNCHANGED << texVars, matVars, pipeVars, sceneVars >>

RECURSIVE BricksDrawn_OnOrOff(_, _)
BricksDrawn_OnOrOff(bs, k) ==
  IF k > Len(bs) THEN << >>
  ELSE << << "brick", k >> >> \o BricksDrawn_OnOrOff(bs, k + 1)

\* brick.drawBrick() .. brick26.drawBrick() from the k-th on: the bricks that
\* are drawn, Brick::drawBrick drawing a brick only if it is ON
RECURSIVE BricksDrawn(_, _)
BricksDrawn(bs, k) ==
  IF k > Len(bs) THEN << >>
  ELSE (IF bs[k].onoff = ON THEN << << "brick", k >> >> ELSE << >>)
         \o BricksDrawn(bs, k + 1)

\* brick.drawBrick() .. brick26.drawBrick()
DrawBricks ==
  /\ gpc.at = "bricks"
  /\ drawn' = drawn \o BricksDrawn(bricks, 1)
  /\ gpc' = [at |-> "swap", i |-> 0]
  /\ UNCHANGED << bricks, world, shouldClose, startHealth, escSeen,
                  closeRequested, gframe >>
  /\ UNCHANGED << texVars, matVars, pipeVars, sceneVars >>

\* glfwSwapBuffers, glfwPollEvents: the user may have asked to close the
\* window, which sets the flag the loop tests
SwapAndPoll(close) ==
  /\ gpc.at = "swap"
  /\ shouldClose' = (shouldClose \/ close)
  /\ closeRequested' = (closeRequested \/ close)
  /\ gpc' = [at |-> "while", i |-> 0]
  /\ UNCHANGED << bricks, world, drawn, startHealth, escSeen, gframe >>
  /\ UNCHANGED << texVars, matVars, pipeVars, sceneVars >>

CallSwapAndPoll == \E close \in BOOLEAN : SwapAndPoll(close)

NextGame ==
  \/ LoopExit
  \/ FrameBegin
  \/ CallProcessInput
  \/ CircleChecks
  \/ CircleMove
  \/ CircleDraw
  \/ DrawBricks
  \/ CallSwapAndPoll

SpecGame == GameInit /\ [][NextGame]_vars

\* ----------------------------- brick-breaker: the loop, frame after frame
\* frames of main that are begun while the exit of the loop is watched
MaxLoopFrames == 2

LoopFrameBegin == FrameBeginWithin(MaxLoopFrames)

\* the keys a frame may find pressed: space only while world is empty
LoopProcessInput ==
  \E esc \in BOOLEAN, space \in (IF world = << >> THEN BOOLEAN ELSE {FALSE}) :
    ProcessInput(esc, space)

NextLoop ==
  \/ LoopExit
  \/ LoopFrameBegin
  \/ LoopProcessInput
  \/ CircleChecks
  \/ CircleMove
  \/ CircleDraw
  \/ DrawBricks
  \/ CallSwapAndPoll

SpecLoop == Init /\ [][NextLoop]_vars

\* ================================================================ claims
RegisteredTagsDistinct ==
  \A i, j \in 1..Len(registered) :
    i # j => registered[i].tag # registered[j].tag

PopulatedTagsDistinct ==
  \A i, j \in 0..(m_loadedTextures - 1) :
    i # j => Slot(i).tag # Slot(j).tag

FailedImage(image) == ~image.decoded \/ image.colorChannels \notin {3, 4}

\* the GPU texture names that are allocated: generated and not deleted
glAllocated == glNames \ glDeleted

\* C1: after successful CreateGLTexture calls with pairwise distinct tags
\* that stay within the 16 slots, FindTextureSlot of the i-th registered tag
\* is i - 1 (0-based registration order) and FindTextureID is the handle
\* that call stored.
C1_LookupInRegistrationOrder ==
  (phase = "alive" /\ RegisteredTagsDistinct /\ Len(registered) <= Capacity)
    => \A i \in 1..Len(registered) :
         /\ FindTextureSlot(registered[i].tag) = i - 1
         /\ FindTextureID(registered[i].tag) = registered[i].ID

\* C1 witness: all 16 slots are filled with distinct tags and the tag
\* registered last is found in slot 15 with its handle.
C1_Witness ==
  /\ phase = "alive"
  /\ Len(registered) = Capacity
  /\ RegisteredTagsDistinct
  /\ FindTextureSlot(registered[Capacity].tag) = Capacity - 1
  /\ FindTextureID(registered[Capacity].tag) = registered[Capacity].ID

\* C2 (as claimed): a CreateGLTexture call on an image that fails to decode
\* or has neither 3 nor 4 channels returns false, leaves m_textureIDs and
\* m_loadedTextures unchanged and leaves no GPU texture name allocated.
C2_FailedCreateMutatesNothing ==
  [][\A tag \in QueryTags, image \in Images :
       (FailedImage(image) /\ CreateGLTexture(tag, image))
         => /\ bReturn' = FALSE
            /\ UNCHANGED << m_textureIDs, m_loadedTextures >>
            /\ glAllocated' = glAllocated]_vars

\* C3 (as claimed): with 16 textures registered a further CreateGLTexture
\* call returns false, keeps the 16 entries and m_loadedTextures = 16, and
\* stores nothing at an index >= 16.
C3_FullTableRejects ==
  [][\A tag \in QueryTags, image \in Images :
       (m_loadedTextures = Capacity /\ CreateGLTexture(tag, image))
         => /\ bReturn' = FALSE
            /\ phase' = "alive"
            /\ m_loadedTextures' = Capacity
            /\ UNCHANGED << m_textureIDs, oob >>]_vars

\* C4: FindTextureSlot and FindTextureID give -1 for every tag that is not
\* the tag of a populated slot; on a fresh SceneManager for every tag, the
\* constructor's placeholder "/0" included.
C4_AbsentTagNotFound ==
  /\ \A tag \in QueryTags :
       tag \notin PopulatedTags
         => FindTextureSlot(tag) = -1 /\ FindTextureID(tag) = -1
  /\ m_loadedTextures = 0
       => \A tag \in QueryTags :
            FindTextureSlot(tag) = -1 /\ FindTextureID(tag) = -1

\* C4 witness: some but not all slots are populated, and both the
\* placeholder tag of the free slots and an unregistered tag are not found.
C4_Witness ==
  /\ m_loadedTextures \in 1..(Capacity - 1)
  /\ Slot(m_loadedTextures).tag = PlaceholderTag
  /\ FindTextureSlot(PlaceholderTag) = -1
  /\ \E tag \in TagSet :
       tag \notin PopulatedTags /\ FindTextureID(tag) = -1

\* C7 (as claimed): DestroyGLTextures leaves the stored entries and
\* m_loadedTextures alone, so FindTextureID and FindTextureSlot of every
\* registered tag give the same value after it as before.
C7_ReleaseKeepsHandles ==
  [][Destructor
       => /\ UNCHANGED << m_textureIDs, m_loadedTextures >>
          /\ \A tag \in PopulatedTags :
               /\ FindTextureID(tag)' = FindTextureID(tag)
               /\ FindTextureSlot(tag)' = FindTextureSlot(tag)]_vars

\* C8 (as claimed): no handle of a successful CreateGLTexture is released
\* while the SceneManager lives; the destructor releases every one of them
\* and allocates no new GPU texture name.
C8_ReleasedOnceAtDestruction ==
  [][/\ phase' = "alive"
        => \A i \in 1..Len(registered') : registered'[i].ID \notin glDeleted'
     /\ Destructor
        => /\ \A i \in 1..Len(registered) :
                registered[i].ID \in glDeleted' \ glDeleted
           /\ glNames' = glNames]_vars

\* C9: BindGLTextures binds the handle of slot i to texture unit i for every
\* i < m_loadedTextures, leaves the binding of every other unit as it was,
\* and changes neither the slot table nor m_loadedTextures.
C9_BindPopulatedSlots ==
  [][BindGLTextures
       => /\ \A u \in 0..(TextureUnits - 1) :
               glBound'[u] =
                 IF u < m_loadedTextures THEN Slot(u).ID ELSE glBound[u]
          /\ UNCHANGED << m_textureIDs, m_loadedTextures, oob >>]_vars

\* C9 witness: at least two textures are registered, every populated slot is
\* bound to the unit of its index and the unit selected last is the last
\* populated one, which only BindGLTextures brings about.
C9_Witness ==
  /\ phase = "alive"
  /\ m_loadedTextures >= 2
  /\ glActiveUnit = m_loadedTextures - 1
  /\ \A u \in 0..(m_loadedTextures - 1) : glBound[u] = Slot(u).ID
  /\ \A u \in m_loadedTextures..(TextureUnits - 1) : glBound[u] = 0

\* C10 (as claimed): whatever tags CreateGLTexture was called with, the tags
\* of the populated slots are pairwise distinct.
C10_PopulatedTagsAlwaysDistinct == PopulatedTagsDistinct

\* C10 (amended): the tags of the populated slots are pairwise distinct as
\* long as every successful CreateGLTexture call was given a tag that no
\* earlier successful call used and no more than 16 textures were registered.
C10_DistinctWhenCallsDistinct ==
  (RegisteredTagsDistinct /\ Len(registered) <= Capacity)
    => PopulatedTagsDistinct

\* C10 witness: several textures registered under distinct tags.
C10_Witness ==
  /\ Len(registered) >= 3
  /\ m_loadedTextures = Len(registered)
  /\ RegisteredTagsDistinct
  /\ PopulatedTagsDistinct

\* the first material of the list that carries tag (0 if none does)
FirstWithTag(tag) ==
  IF \E i \in 1..Len(m_objectMaterials) : m_objectMaterials[i].tag = tag
  THEN CHOOSE i \in 1..Len(m_objectMaterials) :
         /\ m_objectMaterials[i].tag = tag
         /\ \A j \in 1..(i - 1) : m_objectMaterials[j].tag # tag
  ELSE 0

\* C5: FindMaterial(tag, out) copies the diffuse colour, specular colour and
\* shininess of the first-inserted material carrying tag into out, however
\* many materials were appended under that tag afterwards.
C5_FirstMaterialWins ==
  \A tag \in MaterialQueryTags, material \in CallerMaterials :
    FirstWithTag(tag) # 0
      => LET out == FindMaterial(tag, material).material
             first == m_objectMaterials[FirstWithTag(tag)]
         IN  /\ out.diffuseColor = first.diffuseColor
             /\ out.specularColor = first.specularColor
             /\ out.shininess = first.shininess

\* C5 witness: the list holds two materials of one tag with different
\* values, and the latest FindMaterial call for that tag gave the first one.
C5_Witness ==
  /\ fmTag # ""
  /\ fmReturn
  /\ \E i, j \in 1..Len(m_objectMaterials) :
       /\ i < j
       /\ i = FirstWithTag(fmTag)
       /\ m_objectMaterials[j].tag = fmTag
       /\ m_objectMaterials[j].shininess # m_objectMaterials[i].shininess
       /\ fmMaterial.shininess = m_objectMaterials[i].shininess
       /\ fmMaterial.diffuseColor = m_objectMaterials[i].diffuseColor

\* C6 (as claimed): FindMaterial returns true exactly when a defined material
\* carries the tag, and false otherwise, for an empty and a non-empty list.
C6_FoundIffDefined ==
  \A tag \in MaterialQueryTags, material \in CallerMaterials :
    FindMaterial(tag, material).ret
      <=> (\E i \in 1..Len(m_objectMaterials) :
             m_objectMaterials[i].tag = tag)

\* the point p scaled, then turned about X, about Y and about Z, then moved:
\* the transformation spelled out on the point, one step after the other
RefScale(v, p) ==
  << (v[1] * p[1]) \div Q, (v[2] * p[2]) \div Q, (v[3] * p[3]) \div Q >>
RefRotX(d, p) ==
  << p[1],
     (CosSin[d][1] * p[2] - CosSin[d][2] * p[3]) \div Q,
     (CosSin[d][2] * p[2] + CosSin[d][1] * p[3]) \div Q >>
RefRotY(d, p) ==
  << (CosSin[d][1] * p[1] + CosSin[d][2] * p[3]) \div Q,
     p[2],
     (CosSin[d][1] * p[3] - CosSin[d][2] * p[1]) \div Q >>
RefRotZ(d, p) ==
  << (CosSin[d][1] * p[1] - CosSin[d][2] * p[2]) \div Q,
     (CosSin[d][2] * p[1] + CosSin[d][1] * p[2]) \div Q,
     p[3] >>
RefMove(v, p) == << p[1] + v[1], p[2] + v[2], p[3] + v[3] >>
RefTransform(a, p) ==
  RefMove(a.positionXYZ,
    RefRotZ(a.ZrotationDegrees,
      RefRotY(a.YrotationDegrees,
        RefRotX(a.XrotationDegrees, RefScale(a.scaleXYZ, p)))))

ModelJustPushed == pushes # << >> /\ pushes[Len(pushes)].kind = "model"

\* C11: the matrix SetTransformations pushes to "model" is
\* translation * rotationZ * rotationY * rotationX * scale: it takes every
\* point where scaling, then turning about X, Y and Z, then translating
\* takes it (integer scales and translations, rotations by multiples of 90).
C11_ModelIsTRzRyRxS ==
  ModelJustPushed
    => \A p \in XfPoints :
         MatVec(uniform["model"], p) = RefTransform(locals, p)

\* C11 witness: a transformation with a non-uniform scale, a turn about each
\* axis and a translation has been pushed.
C11_Witness ==
  /\ ModelJustPushed
  /\ locals.scaleXYZ = << 2 * Q, 3 * Q, Q >>
  /\ locals.XrotationDegrees = 90
  /\ locals.YrotationDegrees = 180
  /\ locals.ZrotationDegrees = 270
  /\ locals.positionXYZ = << Q, -2 * Q, 3 * Q >>
  /\ MatVec(uniform["model"], << Q, 2 * Q, 3 * Q >>)
       = RefTransform(locals, << Q, 2 * Q, 3 * Q >>)

\* the arguments of the example: scale (2,1,1), rotation (0,0,90),
\* translation (1,0,0)
ExampleArguments ==
  /\ ModelJustPushed
  /\ locals = [scaleXYZ |-> << 2 * Q, Q, Q >>, XrotationDegrees |-> 0,
               YrotationDegrees |-> 0, ZrotationDegrees |-> 90,
               positionXYZ |-> << Q, 0, 0 >>]

\* C12 (as claimed): with scale (2,1,1), rotation (0,0,90) and translation
\* (1,0,0) the model matrix takes the point (1,0,0) to (1,1,0).
C12_ExampleGivesOneOneZero ==
  ExampleArguments => MatVec(uniform["model"], << Q, 0, 0 >>) = << Q, Q, 0 >>

\* C12 (amended): with these arguments the model matrix takes the point
\* (1,0,0) to (1,2,0): scaled to (2,0,0), turned to (0,2,0), moved to (1,2,0).
C12_ExampleGivesOneTwoZero ==
  ExampleArguments
    => MatVec(uniform["model"], << Q, 0, 0 >>) = << Q, 2 * Q, 0 >>

\* C12 witness: the example's arguments have been pushed.
C12_Witness ==
  ExampleArguments /\ MatVec(uniform["model"], << Q, 0, 0 >>) = << Q, 2 * Q, 0 >>

\* the latest colour or texture push since the latest draw, if there is one
ModePushes == {i \in 1..Len(pushes) : pushes[i].kind \in {"color", "texture"}}
LastModePush == pushes[CHOOSE i \in ModePushes : \A j \in ModePushes : j <= i]

\* C13: flat colour and texture exclude each other and the last writer wins:
\* right after SetShaderColor the use-texture flag is false, right after
\* SetShaderTexture(tag) it is true and the sampler is FindTextureSlot(tag),
\* and whichever of the two was called last before a draw decides the flag
\* the draw sees.
C13_LastWriterWins ==
  /\ [](ModePushes # {}
          => (uniform["bUseTexture"] <=> LastModePush.kind = "texture"))
  /\ [][(pushes' # pushes /\ pushes' # << >>)
          => LET p == pushes'[Len(pushes')] IN
             /\ p.kind = "color" => ~uniform'["bUseTexture"]
             /\ p.kind = "texture"
                  => /\ uniform'["bUseTexture"]
                     /\ uniform'["objectTexture"] = FindTextureSlot(p.arg)]_vars

\* C13 witness: SetShaderTexture of a registered tag, then SetShaderColor:
\* the sampler still names the slot and the flag is off.
C13_Witness ==
  /\ Len(pushes) = 2
  /\ pushes[1].kind = "texture"
  /\ pushes[2].kind = "color"
  /\ uniform["objectTexture"] = 1
  /\ ~uniform["bUseTexture"]

MaterialUniforms ==
  << uniform["material.diffuseColor"], uniform["material.specularColor"],
     uniform["material.shininess"] >>

\* C20: SetShaderMaterial(tag) writes the three material uniforms only when
\* a material with that tag is defined, and then exactly the values of that
\* material; in every other step the material uniforms stay as they are.
C20_MaterialWrittenOnlyWhenDefined ==
  [][IF pushes' # pushes /\ pushes' # << >>
        /\ pushes'[Len(pushes')].kind = "material"
     THEN LET tag == pushes'[Len(pushes')].arg IN
          /\ \E i \in 1..Len(m_objectMaterials) : m_objectMaterials[i].tag = tag
          /\ MaterialUniforms' =
               << m_objectMaterials[FirstWithTag(tag)].diffuseColor,
                  m_objectMaterials[FirstWithTag(tag)].specularColor,
                  m_objectMaterials[FirstWithTag(tag)].shininess >>
     ELSE MaterialUniforms' = MaterialUniforms]_vars

\* RenderScene is about to make a draw call
AtDraw ==
  /\ pc.at = "RenderScene"
  /\ pc.ip <= Len(RenderSceneOps(build))
  /\ CurrentOp.op = "Draw"

\* C14: in RenderScene of both builds, every draw call comes after exactly
\* one model-matrix push since the draw before it, followed by at least one
\* colour or texture push; material and UV-scale pushes lie between the
\* model-matrix push and the draw.
C14_PushOrderBeforeDraw ==
  AtDraw
    => /\ Len(pushes) >= 2
       /\ pushes[1].kind = "model"
       /\ \A i \in 2..Len(pushes) : pushes[i].kind # "model"
       /\ \E i \in 2..Len(pushes) : pushes[i].kind \in {"color", "texture"}

\* C14 witness: the draw of the nose, after a model, a colour, a texture, a
\* UV-scale and a material push.
C14_Witness ==
  /\ AtDraw
  /\ Len(pushes) = 5
  /\ \E i \in 2..Len(pushes) : pushes[i].kind = "uv"
  /\ \E i \in 2..Len(pushes) : pushes[i].kind = "material"

UVWrittenBeforeDraw(k) ==
  LET ops == RenderSceneOps(build) IN
  \E i \in 1..Len(ops) :
    /\ ops[i].op = "SetTextureUVScale"
    /\ Cardinality({j \in 1..i : ops[j].op = "Draw"}) < k

C16_RenderSceneLeavesRegistries ==
  [][pc.at \in {"ready", "RenderScene"}
       => /\ m_textureIDs' = m_textureIDs
          /\ m_loadedTextures' = m_loadedTextures
          /\ m_objectMaterials' = m_objectMaterials]_vars

\* C16 witness: two frames have been rendered with ten textures and nine
\* materials in place.
C16_Witness ==
  /\ pc.at = "ready"
  /\ frame = 2
  /\ m_loadedTextures = 10
  /\ Len(m_objectMaterials) = 9

IsSuccess(attempt) == attempt.bReturn
Successes == SelectSeq(attempts, IsSuccess)

\* C17: LoadSceneTextures calls CreateGLTexture for all eleven tags in their
\* order whatever fails, and BindGLTextures once, after the last of them;
\* afterwards m_loadedTextures counts the loads that succeeded and their tags
\* hold slots 0..m_loadedTextures-1 in that order.
C17_AllLoadsAttemptedThenBound ==
  /\ pc.at \in {"LoadSceneTextures", "BindGLTextures"} => bindCalls = 0
  /\ pc.at = "BindGLTextures" => Len(attempts) = Len(SceneTextureTags)
  /\ (build = "final"
       /\ pc.at \notin {"constructed", "LoadSceneTextures", "BindGLTextures"})
      => /\ bindCalls = 1
         /\ Len(attempts) = Len(SceneTextureTags)
         /\ \A i \in 1..Len(attempts) : attempts[i].tag = SceneTextureTags[i]
         /\ m_loadedTextures = Len(Successes)
         /\ \A i \in 1..Len(Successes) :
              m_textureIDs[i - 1].tag = Successes[i].tag

\* C17 witness: the first image failed to load, the ten others are
\* registered from slot 0 on and BindGLTextures has run.
C17_Witness ==
  /\ pc.at = "DefineObjectMaterials"
  /\ ~attempts[1].bReturn
  /\ Len(attempts) = 11
  /\ m_loadedTextures = 10
  /\ m_textureIDs[0].tag = "snow"
  /\ bindCalls = 1

\* C18: from SetupSceneLights on, the lighting flag is true, the directional
\* light and the point lights 0, 1 and 2 are active, and every light uniform
\* keeps the value SetupSceneLights gave it: RenderScene writes none of them.
C18_LightsStayAsSetUp ==
  (build = "final" /\ pc.at \in {"LoadMeshes", "ready", "RenderScene"})
    => /\ \A n \in LightFlags : uniform[n] = TRUE
       /\ \A i \in 1..Len(LightWrites) :
            uniform[LightWrites[i][1]] = LightWrites[i][2]

\* C18 witness: in the middle of the second frame the lights are on.
C18_Witness ==
  /\ build = "final"
  /\ frame = 2
  /\ pc.at = "RenderScene"
  /\ pc.ip = 60
  /\ uniform["bUseLighting"]
  /\ uniform["pointLights[2].bActive"]

TexturePushes == {i \in 1..Len(pushes) : pushes[i].kind = "texture"}

\* C19: at every draw call, whichever images loaded and whichever failed,
\* when the use-texture flag is true the sampler is a populated slot that
\* holds the texture of the tag asked for, never -1.
C19_SamplerPopulatedAtDraw ==
  (AtDraw /\ uniform["bUseTexture"])
    => /\ uniform["objectTexture"] >= 0
       /\ uniform["objectTexture"] < m_loadedTextures
       /\ \A i \in TexturePushes :
            (\A j \in TexturePushes : j <= i)
              => m_textureIDs[uniform["objectTexture"]].tag = pushes[i].arg

\* C21: when every texture load succeeded, every tag RenderScene passes to
\* SetShaderTexture is registered and every tag it passes to
\* SetShaderMaterial is defined, so no lookup of RenderScene misses, and
\* m_loadedTextures is 11, within the capacity.
C21_NoLookupMissesWhenAllLoaded ==
  (build = "final" /\ FailedLoads = 0 /\ pc.at \in {"ready", "RenderScene"})
    => /\ m_loadedTextures = Len(SceneTextureTags)
       /\ m_loadedTextures <= Capacity
       /\ \A i \in 1..Len(FinalOps) :
            /\ FinalOps[i].op = "SetShaderTexture"
                 => /\ FindTextureSlot(FinalOps[i].tag) # NotFound
                    /\ FindTextureID(FinalOps[i].tag) # NotFound
            /\ FinalOps[i].op = "SetShaderMaterial"
                 => FirstWithTag(FinalOps[i].tag) # 0
       /\ uniform["bUseTexture"] => uniform["objectTexture"] # NotFound

\* C21 witness: all eleven images loaded and the last draw of a frame is
\* about to be made with the slot of "ornaments".
C21_Witness ==
  /\ build = "final"
  /\ FailedLoads = 0
  /\ AtDraw
  /\ pc.ip = Len(FinalOps)
  /\ m_loadedTextures = 11
  /\ uniform["bUseTexture"]
  /\ uniform["objectTexture"] = 10

\* C22: on a SceneManager constructed with a null shader manager, none of
\* SetTransformations, SetShaderColor, SetShaderTexture, SetTextureUVScale,
\* SetShaderMaterial and SetupSceneLights writes a uniform or uses the null
\* pointer, whatever the material list holds.
C22_NullSinkNeverUsed ==
  [][m_pShaderManager = "NULL"
       => uniform' = uniform /\ phase' # "crashed"]_vars

\* ---------------------------------------------------------------- C25
\* C25: every circle's centre stays inside the window: -1 <= x <= 1 and
\* -1 <= y <= 1 in every reachable state (lengths in hundredths).
C25_CirclesInsideWindow ==
  \A i \in 1..Len(world) :
    /\ -100 <= world[i].x /\ world[i].x <= 100
    /\ -100 <= world[i].y /\ world[i].y <= 100

\* ---------------------------------------------------------------- C26
Abs(n) == IF n < 0 THEN -n ELSE n

\* C26: every circle's direction is one of 1..8, and one MoveOneStep changes
\* x by at most speed and y by at most speed and leaves a direction in 1..8,
\* also when the direction is drawn again at a wall.
C26_DirectionAndStepBounded ==
  \A i \in 1..Len(world) :
    /\ world[i].direction \in 1..8
    /\ \A m \in MoveOneStep(world[i]) :
         /\ Abs(m.x - world[i].x) <= world[i].speed
         /\ Abs(m.y - world[i].y) <= world[i].speed
         /\ m.direction \in 1..8

\* a circle stands at a wall it is heading into, so that its next
\* MoveOneStep draws the direction again
C26_Witness ==
  \E i \in 1..Len(world) :
    \/ world[i].direction \in {3, 7, 8} /\ world[i].y >= 100 - world[i].radius
    \/ world[i].direction \in {2, 5, 7} /\ world[i].x >= 100 - world[i].radius
    \/ world[i].direction \in {1, 5, 6} /\ world[i].y <= -100 + world[i].radius
    \/ world[i].direction \in {4, 6, 8} /\ world[i].x <= -100 + world[i].radius

\* ---------------------------------------------------------------- C23
BrickLawful(brk) ==
  /\ 0 <= brk.health /\ brk.health <= 10
  /\ brk.brick_type = DESTRUCTABLE => (brk.onoff = OFF <=> brk.health = 0)
  /\ brk.brick_type = REFLECTIVE => (brk.onoff = ON /\ brk.health = 10)

\* C23: every brick has 0 <= health <= 10; a DESTRUCTABLE brick is OFF
\* exactly when its health is 0; a REFLECTIVE brick is always ON with health
\* 10; and no step makes a brick's health larger.
C23_BrickHealthLawful ==
  [][\A b \in 1..Len(bricks) :
       /\ BrickLawful(bricks[b])
       /\ BrickLawful(bricks'[b])
       /\ bricks'[b].health <= bricks[b].health]_vars

\* a DESTRUCTABLE brick has been hit down to health 0 and is OFF
C23_Witness ==
  \E b \in 1..Len(bricks) :
    /\ bricks[b].brick_type = DESTRUCTABLE
    /\ bricks[b].health = 0
    /\ bricks[b].onoff = OFF

\* ---------------------------------------------------------------- C24
\* C24: a DESTRUCTABLE brick that is OFF stays OFF (no step changes it), and
\* CheckCollision of any circle against an OFF brick leaves the brick and
\* the circle as they were, also when the centre is inside its region.
C24_OffBrickIsInert ==
  [][\A b \in 1..Len(bricks) :
       bricks[b].onoff = OFF =>
         /\ bricks'[b] = bricks[b]
         /\ \A i \in 1..Len(world) : \A r \in GetRandomDirection :
              CheckCollision(world[i], bricks[b], r)
                = [circle |-> world[i], brick |-> bricks[b]]]_vars

\* a circle's centre is inside the region of a brick that is OFF, and the
\* circle moved in the frame that brought it to stand there
C24_Witness ==
  \E b \in 1..Len(bricks) : \E i \in 1..Len(world) :
    /\ bricks[b].onoff = OFF
    /\ InRegion(world[i], bricks[b])
    /\ gframe < MaxBrickFrames

\* ---------------------------------------------------------------- C27
\* where an event of a frame stands in the order of the loop body
Rank(e) ==
  CASE e[1] = "input" -> 0
    [] e[1] = "checks" -> 10 * e[2] + 1
    [] e[1] = "move" -> 10 * e[2] + 2
    [] e[1] = "circle" -> 10 * e[2] + 3
    [] e[1] = "brick" -> 1000 + e[2]

\* the events of a frame up to the drawing of the bricks, for n circles
RECURSIVE CircleEvents(_)
CircleEvents(n) ==
  IF n = 0 THEN << >>
  ELSE CircleEvents(n - 1) \o << << "checks", n >>, << "move", n >>, << "circle", n >> >>

\* the circles that had their CheckCollision calls in this frame
ChecksDone == Cardinality({p \in 1..Len(drawn) : drawn[p][1] = "checks"})

\* C27: in a frame the input is processed first, then every circle in world
\* order is checked against the bricks, then moved, then drawn, and the
\* bricks are drawn only after all circles; a brick loses at most one health
\* for each circle checked in the frame, and a brick whose health reached 0
\* in the frame is not drawn in it.
C27_FrameOrder ==
  /\ \A p \in 1..(Len(drawn) - 1) : Rank(drawn[p]) < Rank(drawn[p + 1])
  /\ \A p \in 1..Len(drawn) :
       /\ p = 1 => drawn[p][1] = "input"
       /\ (p > 1 /\ p <= 1 + 3 * Len(world)) =>
            drawn[p] = CircleEvents(Len(world))[p - 1]
       /\ drawn[p][1] = "brick" =>
            /\ Len(drawn) >= 1 + 3 * Len(world)
            /\ ~(startHealth[drawn[p][2]] > 0 /\ bricks[drawn[p][2]].health = 0)
  /\ gpc.at \in {"bricks", "swap"} => Len(drawn) >= 1 + 3 * Len(world)
  /\ \A b \in 1..Len(bricks) :
       /\ startHealth[b] - bricks[b].health <= ChecksDone
       /\ startHealth[b] - bricks[b].health <= Len(world)

\* a frame with two circles has drawn its bricks, one brick having lost its
\* last health in that frame
C27_Witness ==
  /\ gpc.at = "swap"
  /\ Len(world) >= 2
  /\ \E b \in 1..Len(bricks) : startHealth[b] > 0 /\ bricks[b].health = 0
  /\ \E p \in 1..Len(drawn) : drawn[p][1] = "brick"

\* ---------------------------------------------------------------- C28
\* what of a brick never changes
BrickFixed(brk) ==
  << brk.brick_type, brk.x, brk.y, brk.width, brk.red, brk.green, brk.blue >>

\* C28: a frame whose processInput finds the space key pressed appends
\* exactly one circle at (0, -0.8) with direction 3 and radius 0.03, without
\* the key none is appended; no step removes a circle or changes a circle's
\* health or onoff, the size of world never shrinks, and position, width,
\* colour and type of every brick never change.
C28_WorldOnlyGrowsBySpace ==
  [][/\ gpc.at = "input" =>
          IF drawn'[Len(drawn')][2] = 1
          THEN /\ Len(world') = Len(world) + 1
               /\ world'[Len(world')].x = 0
               /\ world'[Len(world')].y = -80
               /\ world'[Len(world')].direction = 3
               /\ world'[Len(world')].radius = 3
          ELSE world' = world
     /\ gpc.at # "input" => Len(world') = Len(world)
     /\ Len(world') >= Len(world)
     /\ \A i \in 1..Len(world) :
          /\ world'[i].health = world[i].health
          /\ world'[i].onoff = world[i].onoff
          /\ gpc.at = "input" => world'[i] = world[i]
     /\ Len(bricks') = Len(bricks)
     /\ \A b \in 1..Len(bricks) : BrickFixed(bricks'[b]) = BrickFixed(bricks[b])]_vars

\* the space key was found pressed with a circle already in world, and the
\* frame went on to check the new circle against the bricks
C28_Witness ==
  /\ Len(world) >= 2
  /\ Len(drawn) >= 1 + 3 * Len(world)
  /\ drawn[1] = << "input", 1 >>

\* ---------------------------------------------------------------- C29
\* C29: once processInput has seen the escape key, the loop finishes the
\* frame it is in and exits without beginning another; and the loop does not
\* exit while neither the escape key was seen nor the window asked to close.
C29_ExitOnlyOnRequest ==
  [][/\ escSeen => gframe' = gframe
     /\ (escSeen /\ gpc.at = "while") => gpc'.at = "exited"
     /\ (escSeen' /\ gpc'.at = "exited") =>
          /\ Len(drawn') >= 1 + 3 * Len(world')
          /\ gpc.at = "while"
     /\ gpc'.at = "exited" => (escSeen' \/ closeRequested')]_vars

\* the escape key was seen in a frame with a circle, the frame was finished
\* and the loop exited
C29_Witness ==
  /\ gpc.at = "exited"
  /\ escSeen
  /\ ~closeRequested
  /\ gframe < MaxLoopFrames
  /\ Len(world) >= 1
  /\ Len(drawn) >= 1 + 3 * Len(world)

====
